---- MODULE Spec2Model ----
(***************************************************************************)
(* Model of the two periodic schedulers of VideoSEO and of the trending    *)
(* search batch pipeline they drive.                                       *)
(*                                                                         *)
(*   infrastructure/materialized_view_refresh_scheduler.py  (mv_..)        *)
(*   infrastructure/scheduler.py                            (ts_..)        *)
(*   src/adapters/trending_search_adapter.py                (ts_run)       *)
(*                                                                         *)
(* Everything runs on one cooperative asyncio event loop: a coroutine that *)
(* holds the loop runs until its next real suspension point, and start(),  *)
(* stop(), timer callbacks and other tasks run only in between.  The       *)
(* database adapter is synchronous (psycopg2) behind "async def", so the   *)
(* only real suspension points are asyncio.sleep and the OpenAI calls.     *)
(***************************************************************************)
EXTENDS Integers, Sequences, FiniteSets

\* ----------------------------------------------------------------------
\* Bounds of the model
\* ----------------------------------------------------------------------
MaxTasks == 2          \* asyncio task slots of the materialized view scheduler
MaxRuns == 2           \* job task slots of the trending search executor
MaxQueries == 6        \* largest batch the query store returns
MaxBatches == 2        \* pipeline runs that reach the trend store
MaxRanked == 2         \* most ranked trends one run hands to persist_trends
MaxClock == 2          \* distinct values datetime.now() returns
MaxPoints == 5         \* most embedded queries handed to the clustering
MaxLen == 3            \* longest query text given to the normalizer
MaxRows == 2           \* most rows the store returns to a read of the trends
MaxItems == 2          \* most rows of video_segments
MaxDist == 3           \* largest distance of a row, in halves of 0.0001

\* ----------------------------------------------------------------------
\* Program constants
\* ----------------------------------------------------------------------
MIN_CLUSTER_SIZE == 3
DBSCAN_MIN_SAMPLES == 2
TOP_N_TRENDS == 20
MaxInstancesTwo == 1 + 1
MaxInstances == 1

VARIABLES
    op,               \* label of the last step taken (history)
    mv_is_running,    \* MaterializedViewRefreshScheduler.is_running
    mv_task,          \* MaterializedViewRefreshScheduler._task (0 = None)
    mv_pc,            \* position of every _run() task
    mv_must_cancel,   \* Task.cancel() requested and not yet delivered
    ts_is_running,    \* TrendingSearchScheduler._is_running
    ts_sched_running, \* self.scheduler.running
    ts_job,           \* job "trending_search_batch" is in the job store
    ts_instances,     \* executor's count of running instances of the job
    ts_run,           \* one record per job task (a _run_pipeline invocation)
    ts_stopped,       \* stop() has shut the scheduler down once (history)
    st_run,           \* the run of run_batch_pipeline that is at the trend store
    now_calls,        \* calls of datetime.now() made for a batch_timestamp
    db_pending,       \* trend rows written in the open transaction
    db_committed,     \* trend rows committed to trending_searches
    ct,               \* what the last call of get_current_trends returned
    cl,               \* a run of run_batch_pipeline seen from its clustering
    nz,               \* a query text and what normalize() made of it
    rd,               \* a call of a read-path entry point
    vs,               \* the table video_segments and a similarity search on it
    wr,               \* a write operation of the database adapter on its connection
    vz,               \* a call of _vectorize_queries and of the embedding gateway
    sc,               \* a call of score_and_rank_clusters
    en                \* the enrichment of one ranked trend

mv_vars == <<mv_is_running, mv_task, mv_pc, mv_must_cancel>>
ts_sched_vars == <<ts_is_running, ts_sched_running, ts_job, ts_stopped>>
ts_vars == <<ts_is_running, ts_sched_running, ts_job, ts_instances, ts_run, ts_stopped>>
store_vars == <<st_run, now_calls, db_pending, db_committed, ct>>
\* the state of the services and adapters that are modelled on their own
ext_vars == <<wr, vz, sc, en>>
svc_vars == <<store_vars, cl, nz, rd, vs, ext_vars>>
vars == <<op, mv_is_running, mv_task, mv_pc, mv_must_cancel,
          ts_is_running, ts_sched_running, ts_job, ts_instances, ts_run, ts_stopped,
          svc_vars>>

Tasks == 1..MaxTasks
Runs == 1..MaxRuns

\* ----------------------------------------------------------------------
\* Positions
\* ----------------------------------------------------------------------
\* _run(): "none" no task, "ready" created and not yet started, "refresh"
\* inside refresh_materialized_view_tables(), "sleep" in asyncio.sleep,
\* "cancelled" ended by CancelledError, "crashed" ended by another
\* BaseException.
MVLive == {"ready", "refresh", "sleep"}
MVDead == {"none", "cancelled", "crashed"}

\* Outcomes of one awaited call: it returns, raises an Exception, or raises
\* a BaseException that is not an Exception.
Outcomes == {"ok", "exception", "base_exception"}

\* Stages of one pipeline run that hold the event loop
RunOnLoop == {"INGEST", "NORMALIZE", "VECTORIZE", "CLUSTER", "SCORE", "ENRICH", "PERSIST"}
\* Stages suspended in an OpenAI call
RunSuspended == {"VECTORIZE_WAIT", "ENRICH_WAIT"}
\* A job task that has ended (or a slot never used)
RunOver == {"free", "DONE", "ERROR", "FAILED", "CANCELLED", "RAISED"}

NoResult == [status |-> "none", trends_identified |-> 0,
             total_queries_processed |-> 0, message |-> "none", error |-> FALSE]

FreshRun == [pc |-> "ready", must_cancel |-> FALSE, n |-> 0, clusters |-> <<>>,
             nclusters |-> 0, ntrends |-> 0, idx |-> 0, generated |-> 0, embed_calls |-> 0,
             wrote |-> 0, failed |-> "none", result |-> NoResult]

FreeRun == [FreshRun EXCEPT !.pc = "free"]

\* The locals of a run that ended by an exception are gone; what it did to
\* its collaborators (embedding calls, rows written) stays observable
Unwound(rec) == [rec EXCEPT !.n = 0, !.clusters = <<>>, !.nclusters = 0, !.ntrends = 0,
                            !.idx = 0, !.generated = 0, !.must_cancel = FALSE]

\* The event loop is held by a coroutine that is between two suspension points
Busy ==
    \/ \E t \in Tasks : mv_pc[t] = "refresh"
    \/ \E r \in Runs : ts_run[r].pc \in RunOnLoop

Min(a, b) == IF a < b THEN a ELSE b

\* no run is at the trend store, and the store holds no trend row
StoreIdle ==
    [pc |-> "idle", batch |-> 0, ntrends |-> 0, idx |-> 0, batch_timestamp |-> 0,
     captured |-> 0, captures |-> 0, insert_failed |-> FALSE, status |-> "none"]

SchedulerInit ==
    /\ op = "init"
    /\ mv_is_running = FALSE
    /\ mv_task = 0
    /\ mv_pc = [t \in Tasks |-> "none"]
    /\ mv_must_cancel = [t \in Tasks |-> FALSE]
    /\ ts_is_running = FALSE
    /\ ts_sched_running = FALSE
    /\ ts_job = FALSE
    /\ ts_instances = 0
    /\ ts_run = [r \in Runs |-> FreeRun]
    /\ ts_stopped = FALSE

\* get_current_trends has not been called
NoTrendsRead == [status |-> "none", trends |-> {}]

StoreInit ==
    /\ st_run = StoreIdle
    /\ now_calls = 0
    /\ db_pending = {}
    /\ db_committed = {}
    /\ ct = NoTrendsRead

\* no run is being clustered
ClusterIdle ==
    [pc |-> "idle", n |-> 0, near |-> {}, labels |-> <<>>, clusters |-> <<>>,
     trends |-> {}, result |-> NoResult]

\* no text is being normalized
NormIdle == [pc |-> "idle", x |-> <<>>, y |-> <<>>, z |-> <<>>]

\* what a read-path entry point returns: status, result list, error message
NoEnvelope == [status |-> "none", list |-> <<>>, error |-> FALSE]

\* no read-path entry point is being called
ReadIdle ==
    [pc |-> "idle", entry |-> "none", store_ok |-> FALSE, rows |-> <<>>, fresh |-> <<>>,
     decorated |-> <<>>, embedding |-> "none", found |-> 0, out |-> NoEnvelope,
     raised |-> FALSE]

\* no similarity search is under way
SearchIdle ==
    [pc |-> "idle", entry |-> "none", table |-> FALSE, items |-> <<>>, embedding |-> "none",
     metric |-> "none", top_k |-> 0, out |-> <<>>, error |-> "none"]

\* no write operation of the database adapter is under way
WriteIdle ==
    [pc |-> "idle", name |-> "none", awaitable_close |-> FALSE, pending |-> 0,
     failed |-> FALSE, rollback_called |-> FALSE, closed |-> FALSE, error |-> "none"]

\* no batch is being vectorized
VectorizeIdle ==
    [pc |-> "idle", records |-> <<>>, sent |-> <<>>, calls |-> 0, embeddings |-> <<>>,
     out |-> <<>>, error |-> "none"]

\* no clusters are being scored
ScoreIdle == [pc |-> "idle", top_n |-> 0, clusters |-> <<>>, ranked |-> <<>>]

\* no trend is being enriched
EnrichIdle ==
    [pc |-> "idle", texts |-> <<>>, most_common |-> <<>>, top_queries |-> <<>>,
     payload |-> <<>>, calls |-> 0]

ExtInit ==
    /\ wr = WriteIdle
    /\ vz = VectorizeIdle
    /\ sc = ScoreIdle
    /\ en = EnrichIdle

Init ==
    /\ SchedulerInit
    /\ StoreInit
    /\ ExtInit
    /\ cl = ClusterIdle
    /\ nz = NormIdle
    /\ rd = ReadIdle
    /\ vs = SearchIdle

\* ======================================================================
\* MaterializedViewRefreshScheduler
\* ======================================================================

\* start() without its "if self.is_running: return"
MVStartUnguarded ==
    /\ ~Busy
    /\ \E t \in Tasks :
         /\ mv_pc[t] \in MVDead
         /\ \A u \in Tasks : (u < t) => mv_pc[u] \in MVLive
         /\ mv_pc' = [mv_pc EXCEPT ![t] = "ready"]
         /\ mv_must_cancel' = [mv_must_cancel EXCEPT ![t] = FALSE]
         /\ mv_task' = t
    /\ mv_is_running' = TRUE
    /\ op' = IF mv_task # 0 THEN "mv_restart" ELSE "mv_start"
    /\ UNCHANGED <<ts_vars, svc_vars>>

\* start(): no-op when is_running, else set the flag and create the task
MVStart ==
    /\ ~Busy
    /\ IF mv_is_running
       THEN /\ op' = "mv_start_noop"
            /\ UNCHANGED mv_vars
       ELSE /\ \E t \in Tasks :
                 /\ mv_pc[t] \in MVDead
                 /\ \A u \in Tasks : (u < t) => mv_pc[u] \in MVLive
                 /\ mv_pc' = [mv_pc EXCEPT ![t] = "ready"]
                 /\ mv_must_cancel' = [mv_must_cancel EXCEPT ![t] = FALSE]
                 /\ mv_task' = t
            /\ mv_is_running' = TRUE
            /\ op' = IF mv_task # 0 THEN "mv_restart" ELSE "mv_start"
    /\ UNCHANGED <<ts_vars, svc_vars>>

\* stop() that cancels the task and leaves the flag set
MVStopKeepsFlag ==
    /\ ~Busy
    /\ IF mv_task # 0
       THEN /\ mv_must_cancel' = [mv_must_cancel EXCEPT
                    ![mv_task] = IF mv_pc[mv_task] \in MVLive THEN TRUE ELSE @]
            /\ op' = IF mv_is_running THEN "mv_stop" ELSE "mv_stop_again"
            /\ UNCHANGED <<mv_is_running, mv_task, mv_pc>>
       ELSE /\ op' = "mv_stop_noop"
            /\ UNCHANGED mv_vars
    /\ UNCHANGED <<ts_vars, svc_vars>>

\* stop(): if a task was ever created, cancel it and clear the flag
MVStop ==
    /\ ~Busy
    /\ IF mv_task # 0
       THEN /\ mv_must_cancel' = [mv_must_cancel EXCEPT
                    ![mv_task] = IF mv_pc[mv_task] \in MVLive THEN TRUE ELSE @]
            /\ mv_is_running' = FALSE
            /\ op' = IF mv_is_running THEN "mv_stop" ELSE "mv_stop_again"
            /\ UNCHANGED <<mv_task, mv_pc>>
       ELSE /\ op' = "mv_stop_noop"
            /\ UNCHANGED mv_vars
    /\ UNCHANGED <<ts_vars, svc_vars>>

\* a loop that sleeps for the interval before its first refresh
MVRunStartSleepsFirst(t) ==
    /\ ~Busy
    /\ mv_pc[t] = "ready"
    /\ ~mv_must_cancel[t]
    /\ mv_pc' = [mv_pc EXCEPT ![t] = "sleep"]
    /\ op' = "mv_sleep_first"
    /\ UNCHANGED <<mv_is_running, mv_task, mv_must_cancel>>
    /\ UNCHANGED <<ts_vars, svc_vars>>

\* first step of the task: _run() enters the loop and calls the refresh
MVRunStart(t) ==
    /\ ~Busy
    /\ mv_pc[t] = "ready"
    /\ ~mv_must_cancel[t]
    /\ mv_pc' = [mv_pc EXCEPT ![t] = "refresh"]
    /\ op' = "mv_invoke"
    /\ UNCHANGED <<mv_is_running, mv_task, mv_must_cancel>>
    /\ UNCHANGED <<ts_vars, svc_vars>>

\* position of _run() after the awaited refresh ended with outcome o
MVAfterRefreshCrash(o) == IF o = "ok" THEN "sleep" ELSE "crashed"
MVAfterRefresh(o) == IF o \in {"ok", "exception"} THEN "sleep" ELSE "crashed"

\* label of the step in which the refresh ended with outcome o
MVRefreshLabel(o) ==
    CASE o = "ok" -> "mv_refresh_ok"
      [] o = "exception" -> "mv_refresh_failed"
      [] o = "base_exception" -> "mv_refresh_crashed"

\* the refresh returns or raises; "except Exception" logs and goes on
MVRefreshDone(t) ==
    /\ mv_pc[t] = "refresh"
    /\ \E o \in Outcomes :
         /\ mv_pc' = [mv_pc EXCEPT ![t] = MVAfterRefresh(o)]
         /\ op' = MVRefreshLabel(o)
    /\ UNCHANGED <<mv_is_running, mv_task, mv_must_cancel>>
    /\ UNCHANGED <<ts_vars, svc_vars>>

\* asyncio.sleep(interval * 60) elapses: next iteration of "while True"
MVSleepElapsed(t) ==
    /\ ~Busy
    /\ mv_pc[t] = "sleep"
    /\ ~mv_must_cancel[t]
    /\ mv_pc' = [mv_pc EXCEPT ![t] = "refresh"]
    /\ op' = "mv_invoke"
    /\ UNCHANGED <<mv_is_running, mv_task, mv_must_cancel>>
    /\ UNCHANGED <<ts_vars, svc_vars>>

\* an outer handler that logs the cancellation and does not re-raise it:
\* the task ends as an ordinary return
MVObserveCancelSwallowed(t) ==
    /\ ~Busy
    /\ mv_pc[t] \in {"ready", "sleep"}
    /\ mv_must_cancel[t]
    /\ mv_pc' = [mv_pc EXCEPT ![t] = IF mv_pc[t] = "sleep" THEN "none" ELSE "cancelled"]
    /\ mv_must_cancel' = [mv_must_cancel EXCEPT ![t] = FALSE]
    /\ op' = IF mv_pc[t] = "sleep" THEN "mv_cancelled_in_sleep" ELSE "mv_cancelled_unstarted"
    /\ UNCHANGED <<mv_is_running, mv_task>>
    /\ UNCHANGED <<ts_vars, svc_vars>>

\* the task is resumed with CancelledError (before its first step, or in
\* the sleep, where "except asyncio.CancelledError" logs and re-raises)
MVObserveCancel(t) ==
    /\ ~Busy
    /\ mv_pc[t] \in {"ready", "sleep"}
    /\ mv_must_cancel[t]
    /\ mv_pc' = [mv_pc EXCEPT ![t] = "cancelled"]
    /\ mv_must_cancel' = [mv_must_cancel EXCEPT ![t] = FALSE]
    /\ op' = IF mv_pc[t] = "sleep" THEN "mv_cancelled_in_sleep" ELSE "mv_cancelled_unstarted"
    /\ UNCHANGED <<mv_is_running, mv_task>>
    /\ UNCHANGED <<ts_vars, svc_vars>>

MVNext ==
    \/ MVStart
    \/ MVStop
    \/ \E t \in Tasks : MVRunStart(t)
    \/ \E t \in Tasks : MVRefreshDone(t)
    \/ \E t \in Tasks : MVSleepElapsed(t)
    \/ \E t \in Tasks : MVObserveCancel(t)

\* ======================================================================
\* TrendingSearchScheduler (APScheduler AsyncIOScheduler, one interval job
\* added with max_instances=1, coalesce=True, replace_existing=True)
\* ======================================================================

\* start() that starts the scheduler without adding the job again
TSStartNoAddJob ==
    /\ ~Busy
    /\ IF ts_is_running
       THEN /\ op' = "ts_start_noop"
            /\ UNCHANGED ts_vars
       ELSE /\ ts_job' = (ts_job \/ ~ts_stopped)
            /\ IF ts_sched_running
               THEN /\ op' = "ts_start_raised"
                    /\ UNCHANGED <<ts_sched_running, ts_is_running>>
               ELSE /\ ts_sched_running' = TRUE
                    /\ ts_is_running' = TRUE
                    /\ op' = "ts_start"
            /\ UNCHANGED <<ts_instances, ts_run, ts_stopped>>
    /\ UNCHANGED <<mv_vars, svc_vars>>

\* start(): no-op when _is_running, else add the job and start the scheduler
TSStart ==
    /\ ~Busy
    /\ IF ts_is_running
       THEN /\ op' = "ts_start_noop"
            /\ UNCHANGED ts_vars
       ELSE /\ ts_job' = TRUE
            /\ IF ts_sched_running
               THEN /\ op' = "ts_start_raised"
                    /\ UNCHANGED <<ts_sched_running, ts_is_running>>
               ELSE /\ ts_sched_running' = TRUE
                    /\ ts_is_running' = TRUE
                    /\ op' = "ts_start"
            /\ UNCHANGED <<ts_instances, ts_run, ts_stopped>>
    /\ UNCHANGED <<mv_vars, svc_vars>>

\* stop(): if the scheduler runs, shut it down (the executor cancels the
\* job tasks that are not done, the job store drops its jobs) and clear
\* the flag
TSStop ==
    /\ ~Busy
    /\ IF ts_sched_running
       THEN /\ ts_sched_running' = FALSE
            /\ ts_job' = FALSE
            /\ ts_run' = [r \in Runs |->
                    IF ts_run[r].pc \in RunOver THEN ts_run[r]
                    ELSE [ts_run[r] EXCEPT !.must_cancel = TRUE]]
            /\ ts_is_running' = FALSE
            /\ ts_stopped' = TRUE
            /\ op' = "ts_stop"
            /\ UNCHANGED ts_instances
       ELSE /\ op' = "ts_stop_noop"
            /\ UNCHANGED ts_vars
    /\ UNCHANGED <<mv_vars, svc_vars>>

\* the interval trigger fires: the job is submitted unless max_instances
\* of it are still running, in which case this run is skipped
TSTick ==
    /\ ~Busy
    /\ ts_sched_running
    /\ ts_job
    /\ IF ts_instances >= MaxInstances
       THEN /\ op' = "ts_tick_skipped"
            /\ UNCHANGED <<ts_instances, ts_run>>
       ELSE /\ \E r \in Runs :
                 /\ ts_run[r].pc \in RunOver
                 /\ \A q \in Runs : (q < r) => ts_run[q].pc \notin RunOver
                 /\ ts_run' = [ts_run EXCEPT ![r] = FreshRun]
            /\ ts_instances' = ts_instances + 1
            /\ op' = "ts_tick_submitted"
    /\ UNCHANGED ts_sched_vars
    /\ UNCHANGED <<mv_vars, svc_vars>>

\* a job task ends: the executor's done callback releases the instance
TSRunEnds(r, rec) ==
    /\ ts_run' = [ts_run EXCEPT ![r] = rec]
    /\ ts_instances' = ts_instances - 1

\* a job task goes on
TSRunGoes(r, rec) ==
    /\ ts_run' = [ts_run EXCEPT ![r] = rec]
    /\ UNCHANGED ts_instances

\* _run_pipeline() starts: it builds the two ports and the adapter; an
\* Exception there is logged by its "except Exception"
TSRunStart(r) ==
    /\ ~Busy
    /\ ts_run[r].pc = "ready"
    /\ ~ts_run[r].must_cancel
    /\ \/ TSRunGoes(r, [ts_run[r] EXCEPT !.pc = "INGEST"])
       \/ TSRunEnds(r, [ts_run[r] EXCEPT !.pc = "FAILED", !.failed = "INIT"])
    /\ op' = "ts_invoke"
    /\ UNCHANGED ts_sched_vars
    /\ UNCHANGED <<mv_vars, svc_vars>>

\* the cancelled job task is resumed with CancelledError, which no
\* "except Exception" of the pipeline catches
TSRunObserveCancel(r) ==
    /\ ~Busy
    /\ ts_run[r].pc \in {"ready"} \cup RunSuspended
    /\ ts_run[r].must_cancel
    /\ TSRunEnds(r, [Unwound(ts_run[r]) EXCEPT !.pc = "CANCELLED"])
    /\ op' = "ts_cancelled"
    /\ UNCHANGED ts_sched_vars
    /\ UNCHANGED <<mv_vars, svc_vars>>

\* ======================================================================
\* TrendingSearchAdapter.run_batch_pipeline
\* ======================================================================

RECURSIVE SumSeq(_)
SumSeq(s) == IF s = <<>> THEN 0 ELSE Head(s) + SumSeq(Tail(s))

\* What clustering n embedded queries can return: the sizes of the
\* clusters (DBSCAN puts at least min_samples points in a cluster and
\* every point in at most one cluster; the other points are noise)
Clusterings(n) ==
    { s \in UNION { [1..k -> DBSCAN_MIN_SAMPLES..n] : k \in 0..(n \div DBSCAN_MIN_SAMPLES) } :
        /\ SumSeq(s) <= n
        /\ \A i \in 1..Len(s) : \A j \in 1..Len(s) : (i < j) => s[i] <= s[j] }

\* score_and_rank_clusters: clusters below MIN_CLUSTER_SIZE are skipped and
\* the ranked list is cut to TOP_N_TRENDS
RankedCount(s) ==
    Min(Cardinality({ i \in 1..Len(s) : s[i] >= MIN_CLUSTER_SIZE }), TOP_N_TRENDS)

\* the guard of the first early return
InsufficientLax(n) == n = 0
Insufficient(n) == n = 0 \/ n < MIN_CLUSTER_SIZE

InsufficientResult(n) ==
    [status |-> "success", trends_identified |-> 0, total_queries_processed |-> n,
     message |-> "Insufficient data for clustering", error |-> FALSE]

NoClustersResult(n) ==
    [status |-> "success", trends_identified |-> 0, total_queries_processed |-> n,
     message |-> "No semantic clusters found", error |-> FALSE]

SuccessResult(k, n) ==
    [status |-> "success", trends_identified |-> k, total_queries_processed |-> n,
     message |-> "none", error |-> FALSE]

ErrorResult ==
    [status |-> "error", trends_identified |-> 0, total_queries_processed |-> 0,
     message |-> "none", error |-> TRUE]

\* the "except Exception" of run_batch_pipeline: the failure of a stage
\* becomes the error result, which _run_pipeline logs
PipelineExceptReraise(rec, stage) ==
    [Unwound(rec) EXCEPT !.pc = "RAISED", !.failed = stage]
PipelineExcept(rec, stage) ==
    [Unwound(rec) EXCEPT !.pc = "ERROR", !.failed = stage, !.result = ErrorResult]

\* the statement order of run_batch_pipeline: the stage that follows a
\* completed stage
AfterSkipsVectorize(stage) ==
    CASE stage = "INGEST" -> "NORMALIZE"
      [] stage = "NORMALIZE" -> "CLUSTER"
      [] stage = "VECTORIZE" -> "CLUSTER"
      [] stage = "CLUSTER" -> "SCORE"
      [] stage = "SCORE" -> "ENRICH"
      [] stage = "ENRICH" -> "PERSIST"
      [] stage = "PERSIST" -> "DONE"
After(stage) ==
    CASE stage = "INGEST" -> "NORMALIZE"
      [] stage = "NORMALIZE" -> "VECTORIZE"
      [] stage = "VECTORIZE" -> "CLUSTER"
      [] stage = "CLUSTER" -> "SCORE"
      [] stage = "SCORE" -> "ENRICH"
      [] stage = "ENRICH" -> "PERSIST"
      [] stage = "PERSIST" -> "DONE"

\* a step of the pipeline of job task r
PipelineStep(r, label) ==
    /\ op' = label
    /\ UNCHANGED ts_sched_vars
    /\ UNCHANGED <<mv_vars, svc_vars>>

\* INGEST: database_port.ingest_queries and the insufficient-data return
Ingest(r) ==
    /\ ts_run[r].pc = "INGEST"
    /\ \/ \E n \in 0..MaxQueries :
            IF Insufficient(n)
            THEN TSRunEnds(r, [ts_run[r] EXCEPT !.pc = "DONE", !.n = n,
                                                !.result = InsufficientResult(n)])
            ELSE TSRunGoes(r, [ts_run[r] EXCEPT !.pc = After("INGEST"), !.n = n])
       \/ TSRunEnds(r, PipelineExcept(ts_run[r], "INGEST"))
    /\ PipelineStep(r, "ingest")

\* NORMALIZE: _normalize_queries
Normalize(r) ==
    /\ ts_run[r].pc = "NORMALIZE"
    /\ \/ TSRunGoes(r, [ts_run[r] EXCEPT !.pc = After("NORMALIZE")])
       \/ TSRunEnds(r, PipelineExcept(ts_run[r], "NORMALIZE"))
    /\ PipelineStep(r, "normalize")

\* VECTORIZE: _vectorize_queries calls the embedding gateway and suspends
VectorizeCall(r) ==
    /\ ts_run[r].pc = "VECTORIZE"
    /\ TSRunGoes(r, [ts_run[r] EXCEPT !.pc = "VECTORIZE_WAIT",
                                      !.embed_calls = @ + 1])
    /\ PipelineStep(r, "vectorize_call")

\* the gateway answers: embeddings are attached, or the error is re-raised
VectorizeReturn(r) ==
    /\ ~Busy
    /\ ts_run[r].pc = "VECTORIZE_WAIT"
    /\ ~ts_run[r].must_cancel
    /\ \/ TSRunGoes(r, [ts_run[r] EXCEPT !.pc = After("VECTORIZE")])
       \/ TSRunEnds(r, PipelineExcept(ts_run[r], "VECTORIZE"))
    /\ PipelineStep(r, "vectorize_return")

\* CLUSTER: clustering_service.cluster_queries and the no-clusters return
Cluster(r) ==
    /\ ts_run[r].pc = "CLUSTER"
    /\ \/ \E c \in Clusterings(ts_run[r].n) :
            IF c = <<>>
            THEN TSRunEnds(r, [ts_run[r] EXCEPT !.pc = "DONE",
                                   !.result = NoClustersResult(ts_run[r].n)])
            ELSE TSRunGoes(r, [ts_run[r] EXCEPT !.pc = After("CLUSTER"), !.clusters = c,
                                                !.nclusters = Len(c)])
       \/ TSRunEnds(r, PipelineExcept(ts_run[r], "CLUSTER"))
    /\ PipelineStep(r, "cluster")

\* SCORE: scoring_service.score_and_rank_clusters
Score(r) ==
    /\ ts_run[r].pc = "SCORE"
    /\ \/ TSRunGoes(r, [ts_run[r] EXCEPT !.pc = After("SCORE"), !.idx = 1, !.clusters = <<>>,
                                         !.ntrends = RankedCount(ts_run[r].clusters)])
       \/ TSRunEnds(r, PipelineExcept(ts_run[r], "SCORE"))
    /\ PipelineStep(r, "score")

\* ENRICH: the loop over the ranked trends; each trend's phrase is asked
\* of the phrase service, and the loop's end leads to PERSIST
EnrichNext(r) ==
    /\ ts_run[r].pc = "ENRICH"
    /\ IF ts_run[r].idx <= ts_run[r].ntrends
       THEN TSRunGoes(r, [ts_run[r] EXCEPT !.pc = "ENRICH_WAIT"])
       ELSE TSRunGoes(r, [ts_run[r] EXCEPT !.pc = After("ENRICH")])
    /\ PipelineStep(r, "enrich_next")

\* a phrase failure that reaches the handler of run_batch_pipeline
EnrichReturnAborts(r) ==
    /\ ~Busy
    /\ ts_run[r].pc = "ENRICH_WAIT"
    /\ ~ts_run[r].must_cancel
    /\ \/ /\ TSRunGoes(r, [ts_run[r] EXCEPT !.pc = "ENRICH", !.idx = @ + 1,
                                            !.generated = @ + 1])
          /\ PipelineStep(r, "enrich_return")
       \/ /\ TSRunEnds(r, PipelineExcept(ts_run[r], "ENRICH"))
          /\ PipelineStep(r, "enrich_failed")

\* the phrase service answers (the trend gets its generated phrase) or
\* fails (parse error, malformed response, network error): the per-trend
\* "except Exception" logs a warning and the loop goes to the next trend
EnrichReturn(r) ==
    /\ ~Busy
    /\ ts_run[r].pc = "ENRICH_WAIT"
    /\ ~ts_run[r].must_cancel
    /\ \/ /\ TSRunGoes(r, [ts_run[r] EXCEPT !.pc = "ENRICH", !.idx = @ + 1,
                                            !.generated = @ + 1])
          /\ PipelineStep(r, "enrich_return")
       \/ /\ TSRunGoes(r, [ts_run[r] EXCEPT !.pc = "ENRICH", !.idx = @ + 1])
          /\ PipelineStep(r, "enrich_failed")

\* PERSIST: database_port.persist_trends commits all rows or rolls back
Persist(r) ==
    /\ ts_run[r].pc = "PERSIST"
    /\ \/ TSRunEnds(r, [ts_run[r] EXCEPT !.pc = After("PERSIST"), !.wrote = ts_run[r].ntrends,
                            !.result = SuccessResult(ts_run[r].ntrends, ts_run[r].n)])
       \/ TSRunEnds(r, PipelineExcept(ts_run[r], "PERSIST"))
    /\ PipelineStep(r, "persist")

TSNext ==
    \/ TSStart
    \/ TSStop
    \/ TSTick
    \/ \E r \in Runs : TSRunStart(r)
    \/ \E r \in Runs : TSRunObserveCancel(r)
    \/ \E r \in Runs : Ingest(r)
    \/ \E r \in Runs : Normalize(r)
    \/ \E r \in Runs : VectorizeCall(r)
    \/ \E r \in Runs : VectorizeReturn(r)
    \/ \E r \in Runs : Cluster(r)
    \/ \E r \in Runs : Score(r)
    \/ \E r \in Runs : EnrichNext(r)
    \/ \E r \in Runs : EnrichReturn(r)
    \/ \E r \in Runs : Persist(r)

Next == MVNext \/ TSNext

Spec == Init /\ [][Next]_vars

\* ----------------------------------------------------------------------
\* Liveness is checked for each scheduler alone on the event loop (the two
\* jobs share no state): the other scheduler is never started.  The event
\* loop runs every task that is ready (its sleep elapsed, its awaited call
\* answered, or it was cancelled), the interval trigger keeps firing, and a
\* coroutine that holds the loop runs on.
\* ----------------------------------------------------------------------
MVIdle == mv_task = 0 /\ ~mv_is_running
TSIdle == ~ts_job /\ ~ts_sched_running /\ ~ts_stopped

SoloNext ==
    \/ TSIdle /\ MVNext
    \/ MVIdle /\ TSNext

MVTask(t) ==
    MVRunStart(t) \/ MVRefreshDone(t) \/ MVSleepElapsed(t) \/ MVObserveCancel(t)

TSRun(r) ==
    \/ TSRunStart(r) \/ TSRunObserveCancel(r)
    \/ Ingest(r) \/ Normalize(r) \/ VectorizeCall(r) \/ VectorizeReturn(r)
    \/ Cluster(r) \/ Score(r) \/ EnrichNext(r) \/ EnrichReturn(r) \/ Persist(r)

TSTickSubmits == TSTick /\ op' = "ts_tick_submitted"

Fairness ==
    /\ \A t \in Tasks : SF_vars(MVTask(t))
    /\ \A r \in Runs : WF_vars(TSRun(r))
    /\ SF_vars(TSTickSubmits)

FairSpec == Init /\ [][SoloNext]_vars /\ Fairness

\* ======================================================================
\* Properties
\* ======================================================================

\* job invocations in flight: a refresh that has not returned, a job task
\* of the trending search executor that has not ended
MVInFlight == { t \in Tasks : mv_pc[t] = "refresh" }
TSInFlight == { r \in Runs : ts_run[r].pc \notin RunOver }

\* background loops that are alive and not cancelled
MVActive == { t \in Tasks : mv_pc[t] \in MVLive /\ ~mv_must_cancel[t] }

\* C1: on each scheduler at most one invocation of the driven job is in
\* flight after every step, also after stop() directly followed by start()
\* while the earlier invocation has not ended; a trigger that fires while
\* an invocation is in flight is skipped and leaves nothing queued.
C1_SingleFlight ==
    [][ /\ Cardinality(MVInFlight') <= 1
        /\ Cardinality(TSInFlight') <= 1
        /\ (TSInFlight # {} /\ op' \in {"ts_tick_submitted", "ts_tick_skipped"})
              => (op' = "ts_tick_skipped" /\ UNCHANGED <<ts_run, ts_instances>>) ]_vars

C1_Witness ==
    /\ op = "ts_tick_skipped"
    /\ ts_stopped
    /\ ts_is_running
    /\ \E r \in Runs : ts_run[r].pc \in RunSuspended /\ ts_run[r].must_cancel

\* C2: start() on a scheduler whose running flag is set changes nothing,
\* and a start() that takes effect leaves exactly one background loop (one
\* live task that is not cancelled; one job in the store of the started
\* APScheduler), so consecutive start() calls leave exactly one.
C2_StartIdempotent ==
    [][ /\ (op' \in {"mv_start", "mv_restart", "mv_start_noop"})
            => /\ mv_is_running => UNCHANGED mv_vars
               /\ mv_is_running'
               /\ ~mv_is_running => Cardinality(MVActive') = 1
        /\ (op' \in {"ts_start", "ts_start_noop", "ts_start_raised"})
            => /\ ts_is_running => UNCHANGED ts_vars
               /\ ts_is_running' /\ ts_sched_running' /\ ts_job'
               /\ UNCHANGED <<ts_run, ts_instances>> ]_vars

C2_Witness ==
    /\ op = "mv_start_noop"
    /\ mv_is_running
    /\ Cardinality(MVActive) = 1
    /\ Cardinality({ t \in Tasks : mv_pc[t] \in MVLive }) = 1

\* C3: a job invocation that raised an Exception does not end the loop:
\* after the step in which an invocation failed, a later invocation is
\* started unless the scheduler is stopped first.
C3_FailureIsolated ==
    /\ (op = "mv_refresh_failed") ~> (op = "mv_invoke" \/ ~mv_is_running)
    /\ \A r \in Runs :
         (ts_run[r].pc \in {"ERROR", "FAILED", "RAISED"})
            ~> (op = "ts_invoke" \/ ~ts_is_running)

C3_Witness ==
    /\ op = "mv_refresh_failed"
    /\ mv_is_running
    /\ mv_task # 0
    /\ mv_pc[mv_task] = "sleep"
    /\ ~mv_must_cancel[mv_task]

\* C4: once stop() has cancelled the background task of the materialized
\* view scheduler, the task starts no job invocation any more, its only
\* further step is the delivery of the cancellation at its suspension point
\* (the sleep, or before its first step), it ends as cancelled and not by
\* an error or a return, and it does end.
C4_CancelTerminates ==
    /\ [][ \A t \in Tasks : mv_must_cancel[t]
              => \/ mv_pc'[t] = mv_pc[t] /\ mv_must_cancel'[t]
                 \/ mv_pc'[t] = "cancelled" /\ ~mv_must_cancel'[t] ]_vars
    /\ \A t \in Tasks : mv_must_cancel[t] ~> (mv_pc[t] = "cancelled")

C4_Witness ==
    /\ op = "mv_cancelled_in_sleep"
    /\ ~mv_is_running
    /\ mv_task # 0
    /\ mv_pc[mv_task] = "cancelled"

\* C5: every stop() leaves the running flag false; stop() on a scheduler
\* whose flag is already false (stopped before, or never started) changes
\* nothing.
C5_StopIdempotent ==
    [][ /\ (op' \in {"mv_stop", "mv_stop_again", "mv_stop_noop"})
            => /\ ~mv_is_running'
               /\ ~mv_is_running => UNCHANGED mv_vars
        /\ (op' \in {"ts_stop", "ts_stop_noop"})
            => /\ ~ts_is_running'
               /\ ~ts_is_running => UNCHANGED ts_vars ]_vars

C5_Witness ==
    /\ op = "mv_stop_again"
    /\ ~mv_is_running
    /\ mv_task # 0

\* C6: a start() that follows a stop() sets the running flag again, and
\* the job is invoked again unless the scheduler is stopped once more.
C6_RestartResumes ==
    /\ []((op = "mv_restart" => mv_is_running)
          /\ ((op = "ts_start" /\ ts_stopped) => ts_is_running))
    /\ (op = "mv_restart") ~> (op = "mv_invoke" \/ ~mv_is_running)
    /\ (op = "ts_start" /\ ts_stopped) ~> (op = "ts_invoke" \/ ~ts_is_running)

C6_Witness ==
    /\ op = "ts_invoke"
    /\ ts_stopped
    /\ ts_is_running

\* C7: whenever no background loop of the materialized view scheduler is
\* alive the running flag is false, and the flag of the trending search
\* scheduler is false whenever its APScheduler is not running.
C7_FlagFollowsLoop ==
    /\ (\A t \in Tasks : mv_pc[t] \notin MVLive) => ~mv_is_running
    /\ ~ts_sched_running => ~ts_is_running

\* the stages of run_batch_pipeline whose failure reaches its handler
FailingStages == {"INGEST", "NORMALIZE", "VECTORIZE", "CLUSTER", "SCORE", "PERSIST"}

\* C8: the step in which a stage of run_batch_pipeline raises an Exception
\* ends the run with the error result (status "error", an error message,
\* trends_identified = 0, total_queries_processed = 0), nothing is raised
\* to the caller, and the scheduler (flag, APScheduler, job) is untouched.
C8_ErrorResult ==
    [][ \A r \in Runs :
          (ts_run[r].failed = "none" /\ ts_run'[r].failed \in FailingStages)
             => /\ ts_run'[r].pc = "ERROR"
                /\ ts_run'[r].result.status = "error"
                /\ ts_run'[r].result.error
                /\ ts_run'[r].result.trends_identified = 0
                /\ ts_run'[r].result.total_queries_processed = 0
                /\ UNCHANGED ts_sched_vars ]_vars

C8_Witness ==
    \E r \in Runs :
       /\ ts_run[r].pc = "ERROR"
       /\ ts_run[r].failed = "PERSIST"
       /\ ts_run[r].result = ErrorResult
       /\ ts_is_running

\* positions of a run at which ingest has returned its rows
AfterIngest == {"NORMALIZE", "VECTORIZE", "VECTORIZE_WAIT", "CLUSTER", "SCORE",
                "ENRICH", "ENRICH_WAIT", "PERSIST", "DONE"}
\* positions of a run at which clustering has returned its clusters
AfterCluster == {"SCORE", "ENRICH", "ENRICH_WAIT", "PERSIST", "DONE"}

\* C9: a run whose ingest returned fewer than MIN_CLUSTER_SIZE rows is
\* over with status "success", 0 trends, the number of ingested rows and
\* the insufficient-data message, having called neither the embedding
\* gateway nor written a row; a run whose clustering returned no cluster is
\* over with status "success", 0 trends, the number of ingested rows and
\* the no-clusters message, having scored, enriched and written nothing.
C9_DataInsufficiency ==
    \A r \in Runs :
       LET rec == ts_run[r] IN
       /\ (rec.pc \in AfterIngest /\ rec.n < MIN_CLUSTER_SIZE)
             => /\ rec.pc = "DONE"
                /\ rec.result = InsufficientResult(rec.n)
                /\ rec.embed_calls = 0
                /\ rec.wrote = 0 /\ rec.idx = 0 /\ rec.generated = 0
       /\ (rec.pc \in AfterCluster /\ rec.n >= MIN_CLUSTER_SIZE /\ rec.nclusters = 0)
             => /\ rec.pc = "DONE"
                /\ rec.result = NoClustersResult(rec.n)
                /\ rec.ntrends = 0
                /\ rec.wrote = 0 /\ rec.idx = 0 /\ rec.generated = 0

C9_Witness ==
    \E r \in Runs :
       /\ ts_run[r].pc = "DONE"
       /\ ts_run[r].n = 2
       /\ ts_run[r].result.message = "Insufficient data for clustering"
       /\ ts_run[r].result.total_queries_processed = 2

\* the stage a position belongs to
StageOf(pc) ==
    CASE pc = "VECTORIZE_WAIT" -> "VECTORIZE"
      [] pc = "ENRICH_WAIT" -> "ENRICH"
      [] OTHER -> pc

StageOrder == <<"INGEST", "NORMALIZE", "VECTORIZE", "CLUSTER", "SCORE", "ENRICH",
                "PERSIST", "DONE">>

RankOf(stage) == CHOOSE i \in 1..Len(StageOrder) : StageOrder[i] = stage

\* positions at which a stage has been completed
StageExit == {"INGEST", "NORMALIZE", "VECTORIZE_WAIT", "CLUSTER", "SCORE", "ENRICH",
              "PERSIST"}
\* positions at which a stage is entered
StageEntry == {"INGEST", "NORMALIZE", "VECTORIZE", "CLUSTER", "SCORE", "ENRICH",
               "PERSIST", "DONE"}

\* the moves of one job task through the pipeline that the stage order allows
StageTransition(p, q) ==
    \/ p = "ready" /\ q \in {"INGEST", "FAILED", "CANCELLED"}
    \/ p \in RunOver /\ q = "ready"
    \/ p = "VECTORIZE" /\ q = "VECTORIZE_WAIT"
    \/ p = "ENRICH" /\ q = "ENRICH_WAIT"
    \/ p = "ENRICH_WAIT" /\ q = "ENRICH"
    \/ p \in StageExit /\ q \in StageEntry /\ RankOf(q) = RankOf(StageOf(p)) + 1
    \/ p \in {"INGEST", "CLUSTER"} /\ q = "DONE"
    \/ p \in RunOnLoop \cup RunSuspended /\ q = "ERROR"
    \/ p \in RunSuspended /\ q = "CANCELLED"

\* C10: every step of a run goes on inside its stage (the call and the
\* answer of VECTORIZE, the per-trend calls of ENRICH), or from the end of
\* a stage to the start of the next stage of INGEST, NORMALIZE, VECTORIZE,
\* CLUSTER, SCORE, ENRICH, PERSIST, DONE, or from INGEST or CLUSTER to DONE,
\* or from a stage to ERROR; no stage is entered twice.  (A job task that
\* the executor cancels while it is suspended leaves the state machine.)
C10_StageOrder ==
    [][ \A r \in Runs :
          (ts_run'[r].pc # ts_run[r].pc)
             => StageTransition(ts_run[r].pc, ts_run'[r].pc) ]_vars

C10_Witness ==
    \E r \in Runs :
       /\ ts_run[r].pc = "DONE"
       /\ ts_run[r].result.status = "success"
       /\ ts_run[r].ntrends = 2
       /\ ts_run[r].wrote = 2
       /\ ts_run[r].generated = 1

\* C11: the step in which the phrase generation of one trend fails leaves
\* that trend without a generated phrase and goes on with the enrichment
\* loop at the next trend, the ranked trends and the batch being unchanged;
\* a run reaches PERSIST only after the phrase of every ranked trend was
\* asked for, and a run that has written its trends wrote every ranked
\* trend and ended with status "success", whatever the number of phrases
\* that were generated.
C11_EnrichFailureIsolated ==
    /\ [][ \A r \in Runs :
            (op' = "enrich_failed" /\ ts_run[r].pc = "ENRICH_WAIT" /\ ts_run'[r] # ts_run[r])
               => /\ ts_run'[r].pc = "ENRICH"
                  /\ ts_run'[r].idx = ts_run[r].idx + 1
                  /\ ts_run'[r].generated = ts_run[r].generated
                  /\ ts_run'[r].ntrends = ts_run[r].ntrends
                  /\ ts_run'[r].failed = "none"
                  /\ ts_run'[r].result = NoResult ]_vars
    /\ [](\A r \in Runs :
            /\ (ts_run[r].pc = "PERSIST") => ts_run[r].idx = ts_run[r].ntrends + 1
            /\ (ts_run[r].pc = "DONE" /\ ts_run[r].idx > 0)
                  => /\ ts_run[r].idx = ts_run[r].ntrends + 1
                     /\ ts_run[r].generated <= ts_run[r].ntrends
                     /\ ts_run[r].wrote = ts_run[r].ntrends
                     /\ ts_run[r].result = SuccessResult(ts_run[r].ntrends, ts_run[r].n))

C11_Witness ==
    \E r \in Runs :
       /\ ts_run[r].pc = "DONE"
       /\ ts_run[r].ntrends = 2
       /\ ts_run[r].generated = 0
       /\ ts_run[r].wrote = 2
       /\ ts_run[r].result.status = "success"

\* ======================================================================
\* The trend store: the end of run_batch_pipeline (scoring, enrichment,
\* the batch_timestamp, persist_trends) and the transaction of
\* AsyncPostgresDatabaseAdapter.persist_trends on its psycopg2 connection.
\* Every run has its own adapter and connection (_run_pipeline builds
\* them), runs do not overlap, and the stages before scoring write nothing.
\* ======================================================================
Batches == 1..MaxBatches
Clock == 1..MaxClock

StoreOver == {"idle", "RETURNED", "DONE", "ERROR"}

\* one row of trending_searches: the batch (run) that wrote it, the place
\* of its trend in ranked_trends, its batch_timestamp column, and the call
\* of datetime.now() that produced that value
TrendRow(run, i) ==
    [batch |-> run.batch, trend |-> i, batch_timestamp |-> run.batch_timestamp,
     captured |-> run.captured]

StoreStep(label) ==
    /\ op' = label
    /\ UNCHANGED <<mv_vars, ts_vars, cl, nz, rd, vs, ext_vars, ct>>

\* a run of run_batch_pipeline returns before scoring: too few queries, or
\* no clusters; it has written nothing
StoreRunReturnsEarly ==
    /\ st_run.pc \in StoreOver
    /\ st_run.batch < MaxBatches
    /\ st_run' = [StoreIdle EXCEPT !.pc = "RETURNED", !.batch = st_run.batch + 1,
                                   !.status = "success"]
    /\ db_pending' = {}
    /\ UNCHANGED <<now_calls, db_committed>>
    /\ StoreStep("store_early_return")

\* a run of run_batch_pipeline has clustered its queries and goes to SCORE
StoreRunBegin ==
    /\ st_run.pc \in StoreOver
    /\ st_run.batch < MaxBatches
    /\ st_run' = [StoreIdle EXCEPT !.pc = "SCORE", !.batch = st_run.batch + 1]
    /\ db_pending' = {}
    /\ UNCHANGED <<now_calls, db_committed>>
    /\ StoreStep("store_begin")

\* the handler of run_batch_pipeline: the error result
StoreRunFails(run) == [run EXCEPT !.pc = "ERROR", !.status = "error"]

\* score_and_rank_clusters returns the ranked trends, or raises
StoreScore ==
    /\ st_run.pc = "SCORE"
    /\ \/ \E k \in 0..MaxRanked : st_run' = [st_run EXCEPT !.pc = "ENRICH", !.ntrends = k]
       \/ st_run' = StoreRunFails(st_run)
    /\ UNCHANGED <<now_calls, db_pending, db_committed>>
    /\ StoreStep("store_score")

\* the enrichment loop ends (a phrase failure is logged, never raised)
StoreEnrich ==
    /\ st_run.pc = "ENRICH"
    /\ st_run' = [st_run EXCEPT !.pc = "STAMP"]
    /\ UNCHANGED <<now_calls, db_pending, db_committed>>
    /\ StoreStep("store_enrich")

\* a batch_timestamp that is a constant of the process, taken before any run
StampBatchAtImport ==
    /\ st_run.pc = "STAMP"
    /\ st_run' = [st_run EXCEPT !.pc = "CREATE_TABLE", !.batch_timestamp = 1,
                                !.captured = 1, !.captures = @ + 1]
    /\ now_calls' = 1
    /\ UNCHANGED <<db_pending, db_committed>>
    /\ StoreStep("store_stamp")

\* batch_timestamp = datetime.now(timezone.utc): one call of the wall
\* clock, whose value is any instant (it is not monotonic)
StampBatch ==
    /\ st_run.pc = "STAMP"
    /\ \E now \in Clock :
         st_run' = [st_run EXCEPT !.pc = "CREATE_TABLE", !.batch_timestamp = now,
                                  !.captured = now_calls + 1, !.captures = @ + 1]
    /\ now_calls' = now_calls + 1
    /\ UNCHANGED <<db_pending, db_committed>>
    /\ StoreStep("store_stamp")

\* a create_trends_table() that drops the table before it creates it
RecreateTrendsTable ==
    /\ st_run.pc = "CREATE_TABLE"
    /\ st_run' = [st_run EXCEPT !.pc = "INSERT", !.idx = 1]
    /\ db_committed' = {}
    /\ db_pending' = {}
    /\ UNCHANGED now_calls
    /\ StoreStep("store_create_table")

\* persist_trends: create_trends_table() executes its DDL and commits, or
\* fails, rolls back and raises
CreateTrendsTable ==
    /\ st_run.pc = "CREATE_TABLE"
    /\ \/ /\ st_run' = [st_run EXCEPT !.pc = "INSERT", !.idx = 1]
          /\ db_committed' = db_committed \cup db_pending
          /\ db_pending' = {}
       \/ /\ st_run' = [st_run EXCEPT !.pc = "ROLLBACK"]
          /\ db_pending' = {}
          /\ UNCHANGED db_committed
    /\ UNCHANGED now_calls
    /\ StoreStep("store_create_table")

\* an INSERT on a connection in autocommit mode
InsertRowAutocommit ==
    /\ st_run.pc = "INSERT"
    /\ st_run.idx <= st_run.ntrends
    /\ \/ /\ st_run' = [st_run EXCEPT !.idx = @ + 1]
          /\ db_committed' = db_committed \cup {TrendRow(st_run, st_run.idx)}
          /\ UNCHANGED db_pending
       \/ /\ st_run' = [st_run EXCEPT !.pc = "ROLLBACK", !.insert_failed = TRUE]
          /\ UNCHANGED <<db_pending, db_committed>>
    /\ UNCHANGED now_calls
    /\ StoreStep("store_insert")

\* persist_trends: cursor.execute(INSERT ...) for the next trend; the row
\* is written in the open transaction, or the statement fails
InsertRow ==
    /\ st_run.pc = "INSERT"
    /\ st_run.idx <= st_run.ntrends
    /\ \/ /\ st_run' = [st_run EXCEPT !.idx = @ + 1]
          /\ db_pending' = db_pending \cup {TrendRow(st_run, st_run.idx)}
       \/ /\ st_run' = [st_run EXCEPT !.pc = "ROLLBACK", !.insert_failed = TRUE]
          /\ UNCHANGED db_pending
    /\ UNCHANGED <<now_calls, db_committed>>
    /\ StoreStep("store_insert")

\* persist_trends: conn.commit() after the loop, and the success result of
\* run_batch_pipeline.  A commit that raises has committed nothing, or (the
\* connection broke after the server committed) everything.
CommitTrends ==
    /\ st_run.pc = "INSERT"
    /\ st_run.idx > st_run.ntrends
    /\ \/ /\ st_run' = [st_run EXCEPT !.pc = "DONE", !.status = "success"]
          /\ db_committed' = db_committed \cup db_pending
          /\ db_pending' = {}
       \/ /\ st_run' = [st_run EXCEPT !.pc = "ROLLBACK"]
          /\ UNCHANGED <<db_pending, db_committed>>
       \/ /\ st_run' = [st_run EXCEPT !.pc = "ROLLBACK"]
          /\ db_committed' = db_committed \cup db_pending
          /\ db_pending' = {}
    /\ UNCHANGED now_calls
    /\ StoreStep("store_commit")

\* persist_trends: "except Exception" rolls back (a rollback that fails is
\* on a dead connection, whose transaction the server aborts) and raises;
\* run_batch_pipeline turns the error into the error result
RollbackTrends ==
    /\ st_run.pc = "ROLLBACK"
    /\ st_run' = StoreRunFails(st_run)
    /\ db_pending' = {}
    /\ UNCHANGED <<now_calls, db_committed>>
    /\ StoreStep("store_rollback")

\* the rows of `rows` that carry the greatest batch_timestamp:
\* WHERE batch_timestamp = (SELECT MAX(batch_timestamp) FROM trending_searches)
LatestStamped(rows) ==
    { x \in rows : \A y \in rows : y.batch_timestamp <= x.batch_timestamp }

\* AsyncPostgresDatabaseAdapter.get_current_trends() with its default limit
\* and min_score, which leave out no row of a batch (a batch has at most
\* TOP_N_TRENDS rows, and no score is negative): the query runs on a
\* connection of its own and sees the committed rows, or it fails (the
\* table does not exist yet, the connection is lost) and the error
\* envelope with an empty list is returned.  A call may come at any time.
GetCurrentTrends ==
    /\ \/ ct' = [status |-> "success", trends |-> LatestStamped(db_committed)]
       \/ ct' = [status |-> "error", trends |-> {}]
    /\ op' = "get_current_trends"
    /\ UNCHANGED <<st_run, now_calls, db_pending, db_committed>>
    /\ UNCHANGED <<mv_vars, ts_vars, cl, nz, rd, vs, ext_vars>>

StoreNext ==
    \/ StoreRunBegin
    \/ StoreRunReturnsEarly
    \/ GetCurrentTrends
    \/ StoreScore
    \/ StoreEnrich
    \/ StampBatch
    \/ CreateTrendsTable
    \/ InsertRow
    \/ CommitTrends
    \/ RollbackTrends

StoreSpec == Init /\ [][StoreNext]_vars

\* the rows of batch b that the store holds, committed or not
RowsOf(b) == { x \in db_pending \cup db_committed : x.batch = b }

\* C12: the rows of one batch carry the same batch_timestamp, produced by
\* one call of datetime.now(); rows of different batches carry values
\* produced by different calls; a run makes that call at most once, it has
\* not made it and has written nothing while it scores and enriches, and
\* it has made it once the first row is written.
C12_OneBatchTimestamp ==
    /\ \A x \in db_pending \cup db_committed : \A y \in db_pending \cup db_committed :
          /\ (x.batch = y.batch)
                => (x.batch_timestamp = y.batch_timestamp /\ x.captured = y.captured)
          /\ (x.batch # y.batch) => (x.captured # y.captured)
    /\ st_run.captures <= 1
    /\ (st_run.pc \in {"SCORE", "ENRICH", "STAMP"})
          => (st_run.captures = 0 /\ RowsOf(st_run.batch) = {})
    /\ (st_run.pc \in {"CREATE_TABLE", "INSERT", "DONE"}) => st_run.captures = 1
    /\ (RowsOf(st_run.batch) # {}) => st_run.captures = 1
    /\ \A x \in RowsOf(st_run.batch) :
          x.batch_timestamp = st_run.batch_timestamp /\ x.captured = st_run.captured

C12_Witness ==
    /\ st_run.pc = "DONE"
    /\ st_run.batch = 2
    /\ Cardinality({ x \in db_committed : x.batch = 1 }) = 2
    /\ Cardinality({ x \in db_committed : x.batch = 2 }) = 2
    /\ \A x \in db_committed : x.batch_timestamp = 1

\* C13: once the write of a trend row of a batch has failed, no row of
\* that batch is or becomes committed, the rows written before the failure
\* are discarded with the rollback, and the run ends with status "error";
\* no step removes or changes a committed row.
C13_AllOrNothing ==
    /\ [](st_run.insert_failed
            => /\ { x \in db_committed : x.batch = st_run.batch } = {}
               /\ st_run.pc \in {"ROLLBACK", "ERROR"}
               /\ (st_run.pc = "ERROR")
                     => (st_run.status = "error" /\ db_pending = {}))
    /\ [][db_committed \subseteq db_committed']_vars

C13_Witness ==
    /\ st_run.pc = "ERROR"
    /\ st_run.insert_failed
    /\ st_run.status = "error"
    /\ st_run.ntrends = 2
    /\ st_run.idx = 2
    /\ st_run.batch = 2
    /\ Cardinality({ x \in db_committed : x.batch = 1 }) = 2

\* the committed rows of batch b
CommittedOf(b) == { x \in db_committed : x.batch = b }

\* the rows of the most recent run that has rows among `rows`
LatestBatch(rows) == { x \in rows : \A y \in rows : y.batch <= x.batch }

\* the later of two runs with rows among `rows` stamped them later
StampsIncrease(rows) ==
    \A x \in rows : \A y \in rows : (x.batch < y.batch) => (x.batch_timestamp < y.batch_timestamp)

\* the run at the store is over and found no trend, or it failed
RunWithoutTrends ==
    /\ st_run.pc \in {"RETURNED", "DONE", "ERROR"}
    /\ st_run.ntrends = 0 \/ st_run.status = "error"

Points(n) == 0..(n - 1)

\* the unordered pairs of distinct points
Pairs(n) == { {i, j} : i \in Points(n), j \in Points(n) } \ { {i} : i \in Points(n) }

\* DBSCAN, metric "precomputed": the eps-neighbourhood of a point (the
\* point itself is in it, its distance to itself being 0)
Neighbours(n, near, i) == { j \in Points(n) : j = i \/ {i, j} \in near }

\* the core points: at least min_samples points in the neighbourhood
CorePoints(n, near) ==
    { i \in Points(n) : Cardinality(Neighbours(n, near, i)) >= DBSCAN_MIN_SAMPLES }

\* the points reached from S by going from core points to their neighbours
RECURSIVE Grow(_, _, _)
Grow(n, near, S) ==
    LET T == S \cup UNION { Neighbours(n, near, i) : i \in S \cap CorePoints(n, near) }
    IN IF T = S THEN S ELSE Grow(n, near, T)

\* fit_predict: the points are visited in index order; an unlabelled core
\* point seeds the next cluster, which takes the unlabelled points reached
\* from it; the points no cluster takes keep the label -1 (noise)
RECURSIVE Label(_, _, _, _, _)
Label(n, near, i, labels, next) ==
    IF i >= n THEN labels
    ELSE IF labels[i] # -1 \/ i \notin CorePoints(n, near)
         THEN Label(n, near, i + 1, labels, next)
         ELSE LET C == { j \in Grow(n, near, {i}) : labels[j] = -1 }
              IN Label(n, near, i + 1,
                       [j \in Points(n) |-> IF j \in C THEN next ELSE labels[j]], next + 1)

FitPredict(n, near) == Label(n, near, 0, [j \in Points(n) |-> -1], 0)

\* cluster_queries with the noise label kept as a cluster of its own
ClustersOfAllLabels(n, labels) ==
    [c \in { labels[i] : i \in Points(n) } |-> { i \in Points(n) : labels[i] = c }]

\* cluster_queries: the dictionary from each label other than -1 to the
\* indices that carry it
ClustersOf(n, labels) ==
    [c \in { labels[i] : i \in Points(n) } \ {-1} |-> { i \in Points(n) : labels[i] = c }]

\* score_and_rank_clusters with every cluster kept, whatever its size
SurvivorsUnfiltered(clusters) == DOMAIN clusters

\* score_and_rank_clusters: a cluster with fewer than MIN_CLUSTER_SIZE
\* members is skipped
Survivors(clusters) ==
    { c \in DOMAIN clusters : Cardinality(clusters[c]) >= MIN_CLUSTER_SIZE }

\* score_and_rank_clusters that ranks every cluster of the dictionary
RankedTrendsOfAll(clusters) ==
    { T \in SUBSET DOMAIN clusters :
        Cardinality(T) = Min(Cardinality(DOMAIN clusters), TOP_N_TRENDS) }

\* score_and_rank_clusters: the sorted list is cut to TOP_N_TRENDS; which
\* trends stay when it is cut depends on their scores
RankedTrends(clusters) ==
    { T \in SUBSET Survivors(clusters) :
        Cardinality(T) = Min(Cardinality(Survivors(clusters)), TOP_N_TRENDS) }

ClusterStep(label) ==
    /\ op' = label
    /\ UNCHANGED <<mv_vars, ts_vars, store_vars, nz, rd, vs, ext_vars>>

\* ingest returns n queries: the insufficient-data return, or the queries
\* are normalized, embedded and clustered, with the no-clusters return
ClusterQueries ==
    /\ cl.pc = "INGESTED"
    /\ IF Insufficient(cl.n)
       THEN cl' = [cl EXCEPT !.pc = "DONE", !.result = InsufficientResult(cl.n)]
       ELSE LET labels == FitPredict(cl.n, cl.near)
                clusters == ClustersOf(cl.n, labels)
            IN IF DOMAIN clusters = {}
               THEN cl' = [cl EXCEPT !.pc = "DONE", !.labels = labels,
                                     !.result = NoClustersResult(cl.n)]
               ELSE cl' = [cl EXCEPT !.pc = "CLUSTERED", !.labels = labels,
                                     !.clusters = clusters]
    /\ ClusterStep("cluster_queries")

\* score_and_rank_clusters returns the ranked trends
ScoreClusters ==
    /\ cl.pc = "CLUSTERED"
    /\ \E T \in RankedTrends(cl.clusters) : cl' = [cl EXCEPT !.pc = "SCORED", !.trends = T]
    /\ ClusterStep("score_clusters")

\* enrichment and persist_trends: the success result, or the error result
\* when persist_trends raises
ClusterRunEnds ==
    /\ cl.pc = "SCORED"
    /\ \/ cl' = [cl EXCEPT !.pc = "DONE",
                           !.result = SuccessResult(Cardinality(cl.trends), cl.n)]
       \/ cl' = [cl EXCEPT !.pc = "ERROR", !.result = ErrorResult]
    /\ ClusterStep("cluster_run_ends")

ClusterInit ==
    /\ SchedulerInit
    /\ StoreInit
    /\ ExtInit
    /\ nz = NormIdle
    /\ rd = ReadIdle
    /\ vs = SearchIdle
    /\ \E n \in 0..MaxPoints : \E near \in SUBSET Pairs(n) :
          cl = [ClusterIdle EXCEPT !.pc = "INGESTED", !.n = n, !.near = near]

ClusterNext ==
    \/ ClusterQueries
    \/ ScoreClusters
    \/ ClusterRunEnds

ClusterSpec == ClusterInit /\ [][ClusterNext]_vars

\* the embeddings of the scenario: A and B split the five queries, the
\* three of A are within eps of each other, so are the two of B, and no
\* query of A is within eps of a query of B
Scenario(A, B) ==
    /\ cl.n = 5
    /\ A \cup B = Points(5) /\ A \cap B = {}
    /\ Cardinality(A) = 3 /\ Cardinality(B) = 2
    /\ cl.near = { p \in Pairs(5) : p \subseteq A \/ p \subseteq B }

\* C14: a run over the five queries of the scenario that reaches the end
\* of the pipeline has clustered the three and the two apart, has exactly
\* one trend, the cluster of the three, none for the two, and its result
\* is status "success" with trends_identified = 1 and
\* total_queries_processed = 5.
C14_EndToEndScenario ==
    \A A \in SUBSET Points(5) : \A B \in SUBSET Points(5) :
       (Scenario(A, B) /\ cl.pc \in {"SCORED", "DONE"})
          => /\ { cl.clusters[c] : c \in DOMAIN cl.clusters } = {A, B}
             /\ Cardinality(cl.trends) = 1
             /\ \A c \in cl.trends : cl.clusters[c] = A
             /\ (cl.pc = "DONE")
                   => /\ cl.result.status = "success"
                      /\ cl.result.trends_identified = 1
                      /\ cl.result.total_queries_processed = 5

C14_Witness ==
    /\ Scenario({0, 2, 3}, {1, 4})
    /\ cl.pc = "DONE"
    /\ cl.result = SuccessResult(1, 5)
    /\ cl.labels = [j \in Points(5) |-> IF j \in {0, 2, 3} THEN 0 ELSE 1]

\* the indices fit_predict labelled noise
Noise == { i \in Points(cl.n) : cl.labels[i] = -1 }

\* C25: in the dictionary cluster_queries returns, every cluster id is
\* non-negative, every member is an index of the input, no index is in
\* two clusters, and an index labelled noise is in no cluster; scoring
\* takes its trends from the clusters of the dictionary only, so a noise
\* index takes part in no trend.
C25_ClustersPartitionNonNoise ==
    cl.pc \in {"CLUSTERED", "SCORED"} =>
       /\ \A c \in DOMAIN cl.clusters :
             /\ c >= 0
             /\ cl.clusters[c] \subseteq Points(cl.n)
             /\ cl.clusters[c] \cap Noise = {}
             /\ \A d \in DOMAIN cl.clusters : c # d => cl.clusters[c] \cap cl.clusters[d] = {}
       /\ cl.trends \subseteq DOMAIN cl.clusters
       /\ \A c \in cl.trends : cl.clusters[c] \cap Noise = {}

\* a scored run with two noise indices and a trend of the three others
C25_Witness ==
    /\ cl.pc = "SCORED"
    /\ cl.n = 5
    /\ Noise = {1, 3}
    /\ cl.trends # {}

\* C26: every trend of the scoring output has at least MIN_CLUSTER_SIZE
\* member queries (its query_count), whatever clusters the clustering made.
C26_NoSmallTrend ==
    cl.pc \in {"SCORED", "DONE", "ERROR"} =>
       \A c \in cl.trends : Cardinality(cl.clusters[c]) >= MIN_CLUSTER_SIZE

\* a scored run whose clustering made a cluster of two, which is no trend,
\* next to a cluster of three, which is one
C26_Witness ==
    /\ cl.pc = "SCORED"
    /\ cl.labels = [j \in Points(5) |-> IF j \in {0, 1} THEN 0 ELSE 1]
    /\ cl.trends = {1}

\* ======================================================================
\* QueryNormalizationService.normalize.  A text is a sequence of
\* characters: an upper-case and a lower-case letter, the space, another
\* whitespace character (the tab), and two of the characters ?!., that
\* rstrip removes.
\* ======================================================================
Letters == {"Q", "q"}
Whitespace == {" ", "\t"}
TrailingPunctuation == {"?", "."}
Chars == Letters \cup Whitespace \cup TrailingPunctuation

Texts == UNION { [1..k -> Chars] : k \in 0..MaxLen }

\* str.lower()
LowerChar(c) == IF c = "Q" THEN "q" ELSE IF c = "R" THEN "r" ELSE c
Lower(s) == [i \in 1..Len(s) |-> LowerChar(s[i])]

\* str.lstrip() and str.rstrip() with a set of characters
RECURSIVE LStrip(_, _)
LStrip(s, chars) ==
    IF s # <<>> /\ Head(s) \in chars THEN LStrip(Tail(s), chars) ELSE s

RECURSIVE RStrip(_, _)
RStrip(s, chars) ==
    IF s # <<>> /\ s[Len(s)] \in chars THEN RStrip(SubSeq(s, 1, Len(s) - 1), chars) ELSE s

\* str.strip(): whitespace is removed at both ends
Strip(s) == RStrip(LStrip(s, Whitespace), Whitespace)

\* str.split(): the maximal runs of characters that are not whitespace
RECURSIVE Split(_, _, _)
Split(s, word, words) ==
    IF s = <<>>
    THEN IF word = <<>> THEN words ELSE Append(words, word)
    ELSE IF Head(s) \in Whitespace
         THEN Split(Tail(s), <<>>, IF word = <<>> THEN words ELSE Append(words, word))
         ELSE Split(Tail(s), Append(word, Head(s)), words)

\* ' '.join(words)
RECURSIVE Join(_)
Join(words) ==
    IF words = <<>> THEN <<>>
    ELSE IF Len(words) = 1 THEN Head(words)
         ELSE Head(words) \o <<" ">> \o Join(Tail(words))

\* normalize: lower().strip(), then ' '.join(split()), then rstrip('?!.,')
normalize(x) == RStrip(Join(Split(Strip(Lower(x)), <<>>, <<>>)), TrailingPunctuation)

NormStep(label) ==
    /\ op' = label
    /\ UNCHANGED <<mv_vars, ts_vars, store_vars, cl, rd, vs, ext_vars>>

\* normalize is called on the text
NormalizeOnce ==
    /\ nz.pc = "text"
    /\ nz' = [nz EXCEPT !.pc = "once", !.y = normalize(nz.x)]
    /\ NormStep("normalize_once")

\* normalize is called on its own result
NormalizeTwice ==
    /\ nz.pc = "once"
    /\ nz' = [nz EXCEPT !.pc = "twice", !.z = normalize(nz.y)]
    /\ NormStep("normalize_twice")

NormInit ==
    /\ SchedulerInit
    /\ StoreInit
    /\ ExtInit
    /\ cl = ClusterIdle
    /\ rd = ReadIdle
    /\ vs = SearchIdle
    /\ \E x \in Texts : nz = [NormIdle EXCEPT !.pc = "text", !.x = x]

NormNext ==
    \/ NormalizeOnce
    \/ NormalizeTwice

NormSpec == NormInit /\ [][NormNext]_vars

\* C15: normalizing the result of normalize gives that result again.
C15_Idempotent ==
    (nz.pc = "twice") => nz.z = nz.y

\* the texts that differ from x in the case of one letter, in the length
\* or the kind of whitespace at one place where x has whitespace or at one
\* of its ends, or in one trailing character of ?!.,
Variants(x) ==
    { [x EXCEPT ![i] = IF x[i] = "Q" THEN "q" ELSE "Q"] : i \in { j \in 1..Len(x) : x[j] \in Letters } }
    \cup { [x EXCEPT ![i] = w] : i \in { j \in 1..Len(x) : x[j] \in Whitespace }, w \in Whitespace }
    \cup { SubSeq(x, 1, i) \o <<w>> \o SubSeq(x, i + 1, Len(x)) :
              i \in { j \in 0..Len(x) : j = 0 \/ j = Len(x) \/ x[j] \in Whitespace }, w \in Whitespace }
    \cup { x \o <<c>> : c \in TrailingPunctuation }
    \cup { SubSeq(x, 1, Len(x) - 1) : i \in { j \in {Len(x)} : j > 0 /\ x[j] \in TrailingPunctuation } }

\* C16: the result of normalize has no upper-case letter, no whitespace at
\* its ends, no whitespace other than single spaces, and no character of
\* ?!., at its end; a text that differs from the input only in letter case,
\* whitespace runs or trailing punctuation has the same result.
C16_Insensitive ==
    (nz.pc \in {"once", "twice"})
       => /\ \A i \in 1..Len(nz.y) : nz.y[i] # "Q"
          /\ (nz.y # <<>>) => (nz.y[1] \notin Whitespace /\ nz.y[Len(nz.y)] \notin Whitespace)
          /\ \A i \in 1..Len(nz.y) : nz.y[i] \in Whitespace
                => (nz.y[i] = " " /\ (i > 1 => nz.y[i - 1] \notin Whitespace))
          /\ (nz.y # <<>>) => nz.y[Len(nz.y)] \notin TrailingPunctuation
          /\ \A v \in Variants(nz.x) : normalize(v) = nz.y

\* ======================================================================
\* The read path: TrendingSearchAdapter.get_current_trends and
\* VideoSEOQueryAdapter.async_get_video_seo_query, with the outcomes of
\* their collaborators (the store, the embedding gateway, the phrase
\* service).
\* ======================================================================

\* Python's None among texts
None == <<"None">>
Falsy(v) == v = None \/ v = <<>>

\* a or b
Or(a, b) == IF Falsy(a) THEN b ELSE a

\* str.capitalize(): the first character in upper case, the rest in lower
UpperChar(c) == IF c = "q" THEN "Q" ELSE IF c = "r" THEN "R" ELSE c
Capitalize(s) == IF s = <<>> THEN s ELSE <<UpperChar(Head(s))>> \o Lower(Tail(s))

\* the phrases the phrase service can answer with, and what the columns
\* representative_query_generated (nullable) and representative_query
\* (NOT NULL) of a stored row can hold
FreshPhrases == {<<>>, <<"q", "Q">>}
StoredGenerated == {None, <<>>, <<"r", "R">>}
StoredQueries == {<<>>, <<"q", "r">>}

\* a row as AsyncPostgresDatabaseAdapter.get_current_trends formats it
TrendRows ==
    [representative_query_generated : StoredGenerated, query : StoredQueries,
     top_queries : {"NULL", "text"}]

RowLists == UNION { [1..k -> TrendRows] : k \in 0..MaxRows }

\* what the phrase generation for a row comes to: no call (top_queries is
\* NULL), a call that raised, or a call that answered a phrase
Generations(row) ==
    IF row.top_queries = "NULL"
    THEN {[called |-> FALSE, ok |-> FALSE, phrase |-> <<>>]}
    ELSE {[called |-> TRUE, ok |-> FALSE, phrase |-> <<>>]}
         \cup { [called |-> TRUE, ok |-> TRUE, phrase |-> ph] : ph \in FreshPhrases }

\* the raw representative query before the persisted phrase
FallbackQueryFirst(row) ==
    Or(Or(Or(row.query, row.representative_query_generated), None), <<>>)

\* trend.get("representative_query_generated") or trend.get("query") or
\* trend.get("representative_query") or ""  (the formatted row has no key
\* "representative_query")
Fallback(row) ==
    Or(Or(Or(row.representative_query_generated, row.query), None), <<>>)

\* rep_phrase of one trend, as appended to the decorated list
RepPhrase(row, g) ==
    LET generated == IF g.called /\ g.ok THEN g.phrase ELSE <<>>
        chosen == IF Falsy(generated) THEN Fallback(row) ELSE generated
    IN Capitalize(chosen)

ReadStep(label) ==
    /\ op' = label
    /\ UNCHANGED <<mv_vars, ts_vars, store_vars, cl, nz, vs, ext_vars>>

ErrorEnvelope(status) == [status |-> status, list |-> <<>>, error |-> TRUE]

\* an entry point whose handler lets the exception through
ReadExceptReraise(call) == [call EXCEPT !.pc = "RAISED", !.raised = TRUE]

\* the outer "except Exception" of an entry point: the error envelope
ReadExcept(call) ==
    [call EXCEPT !.pc = "RETURNED",
                 !.out = ErrorEnvelope(IF call.entry = "trends" THEN "error" ELSE "Error")]

ReadOver == {"idle", "RETURNED", "RAISED"}

\* get_current_trends: the store returns the rows of the latest batch,
\* or its error envelope, or the port raises
TrendsCall ==
    /\ rd.pc \in ReadOver
    /\ LET call == [ReadIdle EXCEPT !.entry = "trends"]
       IN \/ \E rows \in RowLists :
                rd' = [call EXCEPT !.pc = "DECORATE", !.store_ok = TRUE, !.rows = rows]
          \/ rd' = [call EXCEPT !.pc = "RETURNED", !.out = ErrorEnvelope("error")]
          \/ rd' = ReadExcept(call)
    /\ ReadStep("trends_call")

\* get_current_trends: the loop body for the next stored trend
TrendsDecorate ==
    /\ rd.pc = "DECORATE"
    /\ Len(rd.decorated) < Len(rd.rows)
    /\ LET row == rd.rows[Len(rd.decorated) + 1]
       IN \E g \in Generations(row) :
             rd' = [rd EXCEPT !.fresh = Append(@, g),
                              !.decorated = Append(@, RepPhrase(row, g))]
    /\ ReadStep("trends_decorate")

\* get_current_trends: the success envelope with the decorated list
TrendsReturn ==
    /\ rd.pc = "DECORATE"
    /\ Len(rd.decorated) = Len(rd.rows)
    /\ rd' = [rd EXCEPT !.pc = "RETURNED",
                        !.out = [status |-> "success", list |-> rd.decorated, error |-> FALSE]]
    /\ ReadStep("trends_return")

\* async_get_video_seo_query: the checks of query and chat_id
QueryCall ==
    /\ rd.pc \in ReadOver
    /\ LET call == [ReadIdle EXCEPT !.entry = "query"]
       IN \E query \in {"", "text"} : \E chat_id \in {"", "uuid"} :
             IF query = "" \/ chat_id = ""
             THEN rd' = [call EXCEPT !.pc = "RETURNED", !.out = ErrorEnvelope("Error")]
             ELSE rd' = [call EXCEPT !.pc = "EMBED"]
    /\ ReadStep("query_call")

\* async_get_video_seo_query: text_embedding raises, returns no embedding,
\* or returns an embedding (which may be an empty vector)
QueryEmbed ==
    /\ rd.pc = "EMBED"
    /\ \/ rd' = ReadExcept(rd)
       \/ rd' = [rd EXCEPT !.pc = "RETURNED", !.out = ErrorEnvelope("Error")]
       \/ \E e \in {"vector", "empty"} : rd' = [rd EXCEPT !.pc = "SEARCH", !.embedding = e]
    /\ ReadStep("query_embed")

\* async_get_video_seo_query: search_similar_vectors raises (it does for
\* an empty vector) or returns the segments found
QuerySearch ==
    /\ rd.pc = "SEARCH"
    /\ \/ rd' = ReadExcept(rd)
       \/ /\ rd.embedding = "vector"
          /\ \E k \in 0..MaxRows : rd' = [rd EXCEPT !.pc = "RESPOND", !.found = k]
    /\ ReadStep("query_search")

\* async_get_video_seo_query: the segments are grouped (a malformed row
\* raises), the response is recorded in the session table (a failure is
\* logged) and the success envelope is returned
QueryRespond ==
    /\ rd.pc = "RESPOND"
    /\ \/ rd' = ReadExcept(rd)
       \/ rd' = [rd EXCEPT !.pc = "RETURNED",
                           !.out = [status |-> "Success",
                                    list |-> [i \in 1..rd.found |-> "segments"],
                                    error |-> FALSE]]
    /\ ReadStep("query_respond")

ReadNext ==
    \/ TrendsCall
    \/ TrendsDecorate
    \/ TrendsReturn
    \/ QueryCall
    \/ QueryEmbed
    \/ QuerySearch
    \/ QueryRespond

ReadSpec == Init /\ [][ReadNext]_vars

ClaimedPhrase(row, g) ==
    IF g.ok /\ g.phrase # <<>> THEN g.phrase
    ELSE IF row.representative_query_generated \notin {None, <<>>}
         THEN row.representative_query_generated
         ELSE row.query

\* C18 as stated: get_current_trends returns one phrase per stored trend,
\* in the store's order, each being the fresh, else the persisted, else the
\* raw phrase itself, with status "success" whatever generations failed.
C18_PhrasePerTrend ==
    (rd.pc = "RETURNED" /\ rd.entry = "trends" /\ rd.store_ok)
       => /\ rd.out.status = "success"
          /\ Len(rd.out.list) = Len(rd.rows)
          /\ \A i \in 1..Len(rd.rows) : rd.out.list[i] = ClaimedPhrase(rd.rows[i], rd.fresh[i])

\* C18 amended: get_current_trends returns one phrase per stored trend, in
\* the store's order, each being the capitalized form (first character in
\* upper case, the rest in lower case) of the fresh, else the persisted,
\* else the raw phrase, with status "success" whatever generations failed.
C18_CapitalizedPhrasePerTrend ==
    (rd.pc = "RETURNED" /\ rd.entry = "trends" /\ rd.store_ok)
       => /\ rd.out.status = "success"
          /\ Len(rd.out.list) = Len(rd.rows)
          /\ \A i \in 1..Len(rd.rows) :
                rd.out.list[i] = Capitalize(ClaimedPhrase(rd.rows[i], rd.fresh[i]))

C18_Witness ==
    /\ rd.pc = "RETURNED"
    /\ rd.entry = "trends"
    /\ Len(rd.rows) = 2
    /\ rd.fresh[1].called /\ ~rd.fresh[1].ok
    /\ rd.rows[1].representative_query_generated = <<"r", "R">>
    /\ rd.fresh[2].ok /\ rd.fresh[2].phrase = <<"q", "Q">>
    /\ rd.out.status = "success"
    /\ rd.out.list = << <<"R", "r">>, <<"Q", "q">> >>

\* ======================================================================
\* AsyncPostgresDatabaseAdapter.search_similar_vectors and its caller
\* PostgresDatabaseService.search_video_segments.  A row of video_segments
\* is kept as its two distances to the query embedding: cos under the
\* operator <=> and l2 under the operator <->, in halves of 0.0001 (a row
\* at l2 distance 0 is the query vector itself, so its cos is 0 too).
\* ======================================================================
Distances == 0..MaxDist

SegmentRows == { d \in [cos : Distances, l2 : Distances] : d.l2 = 0 => d.cos = 0 }

SegmentTables == UNION { [1..n -> SegmentRows] : n \in 0..MaxItems }

TopKs == 0..(MaxItems + 1)

\* round(float(row[4]), 4), in units of 0.0001
Round4(v) ==
    LET q == v \div 2
    IN IF v % 2 = 0 THEN q ELSE IF q % 2 = 0 THEN q ELSE q + 1

\* operator = "<=>" if similarity_algorithm == "cosine" else "<->"
OperatorOf(metric) == IF metric = "cosine" THEN "<=>" ELSE "<->"

\* the value of "segment_embedding {operator} %s::vector AS distance"
DistanceColumn(row, operator) == IF operator = "<=>" THEN row.cos ELSE row.l2

\* ORDER BY segment_embedding <=> %s::vector ASC LIMIT top_k: the lists of
\* row numbers the statement can return (rows at equal distance come in
\* any order)
Selected(items, top_k) ==
    LET n == Len(items)
        m == Min(top_k, n)
    IN { r \in [1..m -> 1..n] :
           /\ \A i \in 1..m : \A j \in 1..m : (i < j) => r[i] # r[j]
           /\ \A i \in 1..m : \A j \in 1..m : (i < j) => items[r[i]].cos <= items[r[j]].cos
           /\ \A x \in 1..n : (\A i \in 1..m : r[i] # x)
                 => \A i \in 1..m : items[r[i]].cos <= items[x].cos }

\* the vector the statement is given: an ndarray is turned into a list (an
\* object array into the list of its first element), a list is passed on
SentVector(embedding) ==
    CASE embedding \in {"list", "ndarray", "ndarray_object"} -> "vector"
      [] embedding = "empty" -> "empty"
      [] embedding = "nested_list" -> "malformed"

\* what one call of search_similar_vectors comes to: the result list, or
\* the exception it logs and re-raises (UndefinedTable in its own clause,
\* anything else the statement raises in "except Exception")
SearchOutcomes(table, items, embedding, metric, top_k) ==
    LET bad == SentVector(embedding) # "vector"
    IN (IF table THEN {} ELSE {[raised |-> TRUE, error |-> "UndefinedTable", out |-> <<>>]})
       \cup (IF bad THEN {[raised |-> TRUE, error |-> "Exception", out |-> <<>>]} ELSE {})
       \cup { [raised |-> FALSE, error |-> "none",
               out |-> [i \in 1..Len(r) |->
                          [item |-> r[i],
                           distance |-> Round4(DistanceColumn(items[r[i]], OperatorOf(metric)))]]] :
              r \in IF table /\ ~bad THEN Selected(items, top_k) ELSE {} }

SearchStep(label) ==
    /\ op' = label
    /\ UNCHANGED <<mv_vars, ts_vars, store_vars, cl, nz, rd, ext_vars>>

\* a call of search_similar_vectors
SearchSimilarVectors ==
    /\ vs.pc = "ready"
    /\ \E embedding \in {"list", "ndarray", "ndarray_object", "empty", "nested_list"} :
       \E metric \in {"cosine", "l2", "unknown"} :
       \E top_k \in TopKs :
       \E o \in SearchOutcomes(vs.table, vs.items, embedding, metric, top_k) :
          vs' = [vs EXCEPT !.pc = IF o.raised THEN "raised" ELSE "returned",
                           !.entry = "adapter", !.embedding = embedding, !.metric = metric,
                           !.top_k = top_k, !.out = o.out, !.error = o.error]
    /\ SearchStep("search_similar_vectors")

\* a call of search_video_segments: ValueError for an empty embedding or
\* a top_k that is not positive, else the adapter's search, whose result
\* is validated as a response model
SearchVideoSegments ==
    /\ vs.pc = "ready"
    /\ \E embedding \in {"list", "empty", "nested_list"} :
       \E metric \in {"cosine", "l2", "unknown"} :
       \E top_k \in TopKs :
          LET call == [vs EXCEPT !.entry = "service", !.embedding = embedding,
                                 !.metric = metric, !.top_k = top_k]
          IN IF embedding = "empty" \/ top_k <= 0
             THEN vs' = [call EXCEPT !.pc = "raised", !.error = "ValueError"]
             ELSE \E o \in SearchOutcomes(vs.table, vs.items, embedding, metric, top_k) :
                     \/ vs' = [call EXCEPT !.pc = IF o.raised THEN "raised" ELSE "returned",
                                           !.out = o.out, !.error = o.error]
                     \/ /\ ~o.raised
                        /\ vs' = [call EXCEPT !.pc = "raised", !.error = "ValidationError"]
    /\ SearchStep("search_video_segments")

SearchInit ==
    /\ SchedulerInit
    /\ StoreInit
    /\ ExtInit
    /\ cl = ClusterIdle
    /\ nz = NormIdle
    /\ rd = ReadIdle
    /\ \E table \in BOOLEAN : \E items \in SegmentTables :
          vs = [SearchIdle EXCEPT !.pc = "ready", !.table = table,
                                  !.items = IF table THEN items ELSE <<>>]

SearchNext ==
    \/ SearchSimilarVectors
    \/ SearchVideoSegments

SearchSpec == SearchInit /\ [][SearchNext]_vars

\* the distance of a stored row under the metric the caller selected
SelectedDistance(row, metric) == IF metric = "cosine" THEN row.cos ELSE row.l2

\* C19: a search with the cosine or the Euclidean selector that returns a
\* list returns min(top_k, number of rows) rows, the distances reported on
\* consecutive results do not decrease, and no row left out is nearer
\* under the selected metric than a row returned.
C19_NearestAscending ==
    (vs.pc = "returned" /\ vs.metric \in {"cosine", "l2"})
       => /\ Len(vs.out) = Min(vs.top_k, Len(vs.items))
          /\ \A i \in 1..Len(vs.out) : \A j \in 1..Len(vs.out) :
                (i < j) => vs.out[i].distance <= vs.out[j].distance
          /\ \A x \in 1..Len(vs.items) :
                (\A i \in 1..Len(vs.out) : vs.out[i].item # x)
                   => \A i \in 1..Len(vs.out) :
                         SelectedDistance(vs.items[vs.out[i].item], vs.metric)
                            <= SelectedDistance(vs.items[x], vs.metric)

\* the error kinds that tell one malformed input from another and from a
\* generic failure
SpecificErrors == {"InvalidEmbedding", "UnknownMetric", "UndefinedTable", "ValueError"}

\* C20: a search with an empty or malformed query embedding, with a metric
\* selector other than the supported ones, or on a missing table returns no
\* result list: it ends with an error of a specific kind, the missing
\* table with its own kind.
C20_FailFast ==
    (vs.pc \in {"returned", "raised"}
       /\ (SentVector(vs.embedding) # "vector" \/ vs.metric = "unknown" \/ ~vs.table))
       => /\ vs.pc = "raised"
          /\ vs.out = <<>>
          /\ vs.error \in SpecificErrors
          /\ (vs.error = "UndefinedTable") => ~vs.table


\* ======================================================================
\* AsyncPostgresDatabaseAdapter: the write operations and their transaction
\* ======================================================================
\* Every write operation runs its statements in a try block on the one
\* connection of the adapter (psycopg2, no autocommit): the first statement
\* opens a transaction, commit() ends it, and the except clause of the
\* operation is meant to roll it back.  wr.pending counts the statements of
\* the operation that sit in the open transaction.

MaxStatements == 2     \* most statements one write operation executes

\* the schedulers, the trend store and the other services at rest
RestInit ==
    /\ SchedulerInit
    /\ StoreInit
    /\ cl = ClusterIdle
    /\ nz = NormIdle
    /\ rd = ReadIdle
    /\ vs = SearchIdle

WriteOps ==
    {"_setup_extensions", "create_table", "create_session_table",
     "insert_into_session_table", "_insert_video_segments", "_insert_videos",
     "persist_trends"}

\* the operations whose try block ends with self.conn.commit()
Commits(name) == name # "_setup_extensions"

\* the operations whose finally clause awaits self.close()
ClosesAdapter(name) ==
    name \in {"insert_into_session_table", "_insert_video_segments", "_insert_videos"}

\* create_table awaits self.conn.close() itself
ClosesConnection(name) == name = "create_table"

\* the inner try of the except clause: every operation calls
\* self.conn.rollback(), except _insert_videos, which calls self.conn.roll();
\* a psycopg2 connection has no such attribute, the AttributeError is
\* swallowed by the bare except and nothing is rolled back
CallsRollback(name) == name # "_insert_videos"

WriteStep(label) ==
    /\ op' = label
    /\ UNCHANGED <<mv_vars, ts_vars, store_vars, cl, nz, rd, vs, vz, sc, en>>

\* a write operation is called
WriteCall ==
    /\ wr.pc = "ready"
    /\ \E name \in WriteOps : wr' = [wr EXCEPT !.pc = "try", !.name = name]
    /\ WriteStep("write_call")

\* self.cursor.execute(...) in the try block: the statement joins the open
\* transaction, or it raises
WriteExecute ==
    /\ wr.pc = "try"
    /\ wr.pending < MaxStatements
    /\ \/ wr' = [wr EXCEPT !.pending = @ + 1]
       \/ wr' = [wr EXCEPT !.pc = "except", !.failed = TRUE, !.error = "original"]
    /\ WriteStep("write_execute")

\* the end of the try block: self.conn.commit(), which may raise, or for
\* _setup_extensions nothing
WriteCommit ==
    /\ wr.pc = "try"
    /\ IF Commits(wr.name)
       THEN \/ wr' = [wr EXCEPT !.pc = "finally", !.pending = 0]
            \/ wr' = [wr EXCEPT !.pc = "except", !.failed = TRUE, !.error = "original"]
       ELSE wr' = [wr EXCEPT !.pc = "finally"]
    /\ WriteStep("write_commit")

\* the except clause: the rollback attempt, the log line and the bare raise.
\* rollback() ends the transaction; when it raises itself the connection is
\* gone and the transaction with it.
WriteExcept ==
    /\ wr.pc = "except"
    /\ IF CallsRollback(wr.name)
       THEN wr' = [wr EXCEPT !.pc = "finally", !.rollback_called = TRUE, !.pending = 0]
       ELSE wr' = [wr EXCEPT !.pc = "finally"]
    /\ WriteStep("write_except")

\* the finally clause and the way out.  Closing the connection discards
\* what is left of the transaction.  create_table awaits the result of
\* conn.close(): with a connection whose close() is not a coroutine function
\* (psycopg2's returns None) the await raises TypeError, which replaces the
\* error in flight.
WriteFinally ==
    /\ wr.pc = "finally"
    /\ LET closing == ClosesAdapter(wr.name) \/ ClosesConnection(wr.name)
           error == IF ClosesConnection(wr.name) /\ ~wr.awaitable_close
                    THEN "TypeError" ELSE wr.error
       IN wr' = [wr EXCEPT !.pc = IF error = "none" THEN "returned" ELSE "raised",
                           !.closed = closing,
                           !.pending = IF closing THEN 0 ELSE @,
                           !.error = error]
    /\ WriteStep("write_finally")

WriteInit ==
    /\ RestInit
    /\ vz = VectorizeIdle
    /\ sc = ScoreIdle
    /\ en = EnrichIdle
    /\ \E awaitable \in BOOLEAN :
          wr = [WriteIdle EXCEPT !.pc = "ready", !.awaitable_close = awaitable]

WriteNext ==
    \/ WriteCall
    \/ WriteExecute
    \/ WriteCommit
    \/ WriteExcept
    \/ WriteFinally

WriteSpec == WriteInit /\ [][WriteNext]_vars

\* C21: whenever a write operation of the adapter has failed, it called
\* rollback() on the connection before the error left it, the error that
\* left it is the original one, and no statement of the operation is
\* pending on the connection.
C21_RollbackOnFailure ==
    /\ (wr.pc = "finally" /\ wr.failed) => wr.rollback_called
    /\ (wr.pc = "raised" /\ wr.failed) =>
          /\ wr.rollback_called
          /\ wr.error = "original"
          /\ wr.pending = 0


\* ======================================================================
\* TrendingSearchAdapter._vectorize_queries
\* ======================================================================
\* A record is a query dictionary; the model keeps its normalized text
\* ("query") and, once attached, its embedding.  A vector is a value of
\* Vectors; NoEmbedding stands for a record without the key "embedding".

MaxRecords == 3        \* most records in a batch handed to the vectorizer

NormalizedTexts == {"a", "b", "c"}
Vectors == {"u", "v"}
NoEmbedding == "none"

Batch == UNION { [1..n -> NormalizedTexts] : n \in 0..MaxRecords }

Range(f) == { f[i] : i \in DOMAIN f }

\* list(set(...)): the distinct values in an order the code does not choose
ListsOfSet(S) ==
    { f \in [1..Cardinality(S) -> S] : Range(f) = S }

UniqueQueriesNoDedupe(records) == { records }

\* unique_queries = list(set(q["query"] for q in queries_data))
UniqueQueries(records) == ListsOfSet(Range(records))

\* what the gateway may hand back for a request of n texts: a list of
\* vectors of any length up to one more than asked for
GatewayLists(n) == UNION { [1..k -> Vectors] : k \in 0..(n + 1) }

IndexOf(seq, x) == CHOOSE i \in DOMAIN seq : seq[i] = x

\* query_to_embedding = {query: embedding for ... in zip(unique_queries,
\* embeddings)}: zip stops at the shorter list
QueryToEmbedding(sent, embeddings) ==
    [ t \in { sent[i] : i \in 1..Min(Len(sent), Len(embeddings)) } |->
         embeddings[IndexOf(sent, t)] ]

\* the records whose text has no entry in the lookup
Missing(records, lookup) == { i \in DOMAIN records : records[i] \notin DOMAIN lookup }

AttachByPosition(records, sent, embeddings) ==
    [ out |-> [ i \in DOMAIN records |->
                  [query |-> records[i],
                   embedding |-> IF i <= Len(embeddings) THEN embeddings[i]
                                 ELSE NoEmbedding] ],
      error |-> IF Len(embeddings) < Len(records) THEN "KeyError" ELSE "none" ]

\* the loop "query_data["embedding"] = query_to_embedding[query_data["query"]]":
\* the records are changed in place, in order, until a text is missing
\* from the lookup, which raises KeyError
Attach(records, sent, embeddings) ==
    LET lookup == QueryToEmbedding(sent, embeddings)
        missing == Missing(records, lookup)
        stop == IF missing = {} THEN Len(records) + 1
                ELSE CHOOSE i \in missing : \A j \in missing : i <= j
    IN [ out |-> [ i \in DOMAIN records |->
                     [query |-> records[i],
                      embedding |-> IF i < stop THEN lookup[records[i]]
                                    ELSE NoEmbedding] ],
         error |-> IF missing = {} THEN "none" ELSE "KeyError" ]

VectorizeStep(label) ==
    /\ op' = label
    /\ UNCHANGED <<mv_vars, ts_vars, store_vars, cl, nz, rd, vs, wr, sc, en>>

\* the distinct texts are collected and text_embedding is awaited
EmbedUnique ==
    /\ vz.pc = "ready"
    /\ \E sent \in UniqueQueries(vz.records) :
          vz' = [vz EXCEPT !.pc = "embedding", !.sent = sent, !.calls = @ + 1]
    /\ VectorizeStep("embed_unique")

\* the gateway answers: a list of vectors, or it raises (text_embedding
\* raises ValueError for an empty request), and the except clause of
\* _vectorize_queries logs and re-raises
GatewayAnswers ==
    /\ vz.pc = "embedding"
    /\ \/ /\ vz.sent # <<>>
          /\ \E embeddings \in GatewayLists(Len(vz.sent)) :
                vz' = [vz EXCEPT !.pc = "embedded", !.embeddings = embeddings]
       \/ vz' = [vz EXCEPT !.pc = "raised",
                           !.out = [i \in DOMAIN vz.records |->
                                       [query |-> vz.records[i], embedding |-> NoEmbedding]],
                           !.error = IF vz.sent = <<>> THEN "ValueError" ELSE "GatewayError"]
    /\ VectorizeStep("gateway_answers")

\* the lookup is built and the embeddings are attached
AttachEmbeddings ==
    /\ vz.pc = "embedded"
    /\ LET a == Attach(vz.records, vz.sent, vz.embeddings)
       IN vz' = [vz EXCEPT !.pc = IF a.error = "none" THEN "returned" ELSE "raised",
                           !.out = a.out, !.error = a.error]
    /\ VectorizeStep("attach_embeddings")

VectorizeInit ==
    /\ RestInit
    /\ wr = WriteIdle
    /\ sc = ScoreIdle
    /\ en = EnrichIdle
    /\ \E records \in Batch : vz = [VectorizeIdle EXCEPT !.pc = "ready", !.records = records]

VectorizeNext ==
    \/ EmbedUnique
    \/ GatewayAnswers
    \/ AttachEmbeddings

VectorizeSpec == VectorizeInit /\ [][VectorizeNext]_vars

\* C22: for every batch the vectorizer calls the embedding gateway exactly
\* once, and the list it sends holds each distinct normalized text of the
\* batch exactly once, so it has len(set(normalized_texts)) items.
C22_OneCallDistinctTexts ==
    /\ vz.pc = "ready" => vz.calls = 0
    /\ vz.pc \in {"embedding", "embedded", "returned", "raised"} =>
          /\ vz.calls = 1
          /\ Len(vz.sent) = Cardinality(Range(vz.records))
          /\ Range(vz.sent) = Range(vz.records)

\* a batch in which two records share a text has been sent to the gateway
C22_Witness ==
    /\ vz.pc = "returned"
    /\ Len(vz.records) = 3
    /\ Len(vz.sent) = 2

\* C23: the output of the vectorizer has the length and the record order
\* of its input, and the embedding of every output record is the vector
\* the gateway returned at the position its text had in the list sent, so
\* records with the same text carry the same embedding.
C23_OrderAndLookup ==
    vz.pc = "returned" =>
       /\ Len(vz.out) = Len(vz.records)
       /\ \A i \in DOMAIN vz.out :
             /\ vz.out[i].query = vz.records[i]
             /\ \E j \in DOMAIN vz.sent :
                   /\ vz.sent[j] = vz.records[i]
                   /\ j <= Len(vz.embeddings)
                   /\ vz.out[i].embedding = vz.embeddings[j]
       /\ \A i, j \in DOMAIN vz.out :
             vz.out[i].query = vz.out[j].query
                => vz.out[i].embedding = vz.out[j].embedding

\* records that share a text got one vector, records of another text
\* another vector, and the list sent is not in the order of the records
C23_Witness ==
    /\ vz.pc = "returned"
    /\ vz.records = <<"a", "b", "a">>
    /\ vz.sent = <<"b", "a">>
    /\ vz.embeddings = <<"u", "v">>
    /\ vz.out[1].embedding = "v"

\* C24: vectorization fails with an error whenever the gateway returns an
\* empty list or a list whose length differs from the number of distinct
\* normalized texts, and no record then carries a vector that was returned
\* for another text.
C24_CountMismatchFails ==
    (vz.pc \in {"returned", "raised"} /\ vz.error # "GatewayError" /\ vz.error # "ValueError"
       /\ Len(vz.embeddings) # Len(vz.sent)) =>
       /\ vz.pc = "raised"
       /\ \A i \in DOMAIN vz.out :
             vz.out[i].embedding # NoEmbedding
                => vz.out[i].embedding = vz.embeddings[IndexOf(vz.sent, vz.records[i])]


\* ======================================================================
\* TrendScoringService.score_and_rank_clusters: scores, order and cut
\* ======================================================================
\* A cluster is seen through what its score depends on: query_count, its
\* number of member queries, and recent, the number of them that are fresh.
\* _calculate_trend_score adds exp(-age / RECENCY_DECAY_MINUTES) over the
\* members; the model takes the weight of a fresh query as 1 and of an old
\* one as 0.  Scores are kept in tenths, so VOLUME_WEIGHT is 6 and
\* RECENCY_WEIGHT is 4, and round(trend_score, 4) leaves them as they are.
\* The configuration object is handed to the service, so top_n ranges over
\* small values next to the default.

MaxClusters == 3       \* most clusters in the dictionary handed to the scoring

VOLUME_WEIGHT == 6
RECENCY_WEIGHT == 4

TopNs == {1, 2, TOP_N_TRENDS}

ClusterSizes == DBSCAN_MIN_SAMPLES..(MIN_CLUSTER_SIZE + 1)

ScoredClusters ==
    { c \in [query_count : ClusterSizes, recent : 0..(MIN_CLUSTER_SIZE + 1)] :
         c.recent <= c.query_count }

ClusterDicts == UNION { [1..k -> ScoredClusters] : k \in 0..MaxClusters }

\* _calculate_trend_score
TrendScore(c) == c.query_count * VOLUME_WEIGHT + c.recent * RECENCY_WEIGHT

\* the loop over clusters.items(): a trend for every cluster of at least
\* MIN_CLUSTER_SIZE members, in the order of the dictionary; the cluster
\* ids are the labels 0, 1, ..
RECURSIVE Trends(_, _)
Trends(clusters, i) ==
    IF i > Len(clusters) THEN <<>>
    ELSE IF clusters[i].query_count < MIN_CLUSTER_SIZE THEN Trends(clusters, i + 1)
         ELSE <<[cluster_id |-> i - 1, trend_score |-> TrendScore(clusters[i]),
                 query_count |-> clusters[i].query_count]>> \o Trends(clusters, i + 1)

\* x put into a list sorted by descending trend_score, behind the
\* elements that score the same
RECURSIVE InsertDesc(_, _)
InsertDesc(sorted, x) ==
    IF sorted = <<>> THEN <<x>>
    ELSE IF Head(sorted).trend_score >= x.trend_score
         THEN <<Head(sorted)>> \o InsertDesc(Tail(sorted), x)
         ELSE <<x>> \o sorted

\* sorted(trends, key=trend_score, reverse=True): stable, equal scores
\* stay in the order they had
RECURSIVE SortDesc(_, _)
SortDesc(trends, sorted) ==
    IF trends = <<>> THEN sorted
    ELSE SortDesc(Tail(trends), InsertDesc(sorted, Head(trends)))

\* list[:n]
Take(list, n) == SubSeq(list, 1, Min(Len(list), n))

RankedCutFirst(trends, top_n) == SortDesc(Take(trends, top_n), <<>>)

\* sorted(...)[:TOP_N_TRENDS]
Ranked(trends, top_n) == Take(SortDesc(trends, <<>>), top_n)

ScoreStep(label) ==
    /\ op' = label
    /\ UNCHANGED <<mv_vars, ts_vars, store_vars, cl, nz, rd, vs, wr, vz, en>>

\* score_and_rank_clusters returns the ranked trends
ScoreAndRankClusters ==
    /\ sc.pc = "clustered"
    /\ sc' = [sc EXCEPT !.pc = "ranked",
                        !.ranked = Ranked(Trends(sc.clusters, 1), sc.top_n)]
    /\ ScoreStep("score_and_rank_clusters")

ScoreInit ==
    /\ RestInit
    /\ wr = WriteIdle
    /\ vz = VectorizeIdle
    /\ en = EnrichIdle
    /\ \E top_n \in TopNs : \E clusters \in ClusterDicts :
          sc = [ScoreIdle EXCEPT !.pc = "clustered", !.top_n = top_n, !.clusters = clusters]

ScoreNext == ScoreAndRankClusters

ScoreSpec == ScoreInit /\ [][ScoreNext]_vars

\* the clusters of the dictionary that are large enough to be trends
Surviving == { i \in DOMAIN sc.clusters : sc.clusters[i].query_count >= MIN_CLUSTER_SIZE }

\* the clusters whose trend is in the output
Kept == { sc.ranked[k].cluster_id + 1 : k \in DOMAIN sc.ranked }

\* C27: the scoring output is in descending order of trend_score and has
\* at most TOP_N_TRENDS trends, each the trend of a surviving cluster with
\* that cluster's score, and no surviving cluster left out scores higher
\* than a trend that was kept.
C27_SortedAndCut ==
    sc.pc = "ranked" =>
       /\ Len(sc.ranked) <= sc.top_n
       /\ \A j, k \in DOMAIN sc.ranked :
             j < k => sc.ranked[j].trend_score >= sc.ranked[k].trend_score
       /\ Kept \subseteq Surviving
       /\ \A k \in DOMAIN sc.ranked :
             sc.ranked[k].trend_score = TrendScore(sc.clusters[sc.ranked[k].cluster_id + 1])
       /\ \A i \in Surviving \ Kept : \A k \in DOMAIN sc.ranked :
             TrendScore(sc.clusters[i]) <= sc.ranked[k].trend_score

\* three clusters survive with scores that rise along the dictionary, two
\* trends are kept, and the first cluster is the one left out
C27_Witness ==
    /\ sc.pc = "ranked"
    /\ sc.top_n = 2
    /\ Cardinality(Surviving) = 3
    /\ TrendScore(sc.clusters[1]) < TrendScore(sc.clusters[2])
    /\ TrendScore(sc.clusters[2]) < TrendScore(sc.clusters[3])
    /\ Kept = {2, 3}
    /\ sc.ranked[1].cluster_id = 2


\* ======================================================================
\* The enrichment of a ranked trend: top_queries and the payload of
\* craft_representative_query
\* ======================================================================
\* A Python string is a sequence of tokens: a query text is one token, and
\* the text str() makes of a list of (text, count) tuples is the sequence
\* of its brackets, quotes, commas, texts and numbers.

MaxMembers == 4        \* most member queries of the cluster of a trend

MostCommonLimit == 5

ClusterTexts == UNION { [1..n -> NormalizedTexts] : n \in MIN_CLUSTER_SIZE..MaxMembers }

Count(texts, t) == Cardinality({ i \in DOMAIN texts : texts[i] = t })

FirstIndex(texts, t) == CHOOSE i \in DOMAIN texts : texts[i] = t /\ \A j \in 1..(i - 1) : texts[j] # t

\* Counter(texts).most_common(n): the distinct texts with their counts,
\* the most frequent first, equal counts in the order of first occurrence
MostCommon(texts, n) ==
    LET distinct == Range(texts)
        before(u, t) == \/ Count(texts, u) > Count(texts, t)
                        \/ /\ Count(texts, u) = Count(texts, t)
                           /\ FirstIndex(texts, u) < FirstIndex(texts, t)
        place(t) == 1 + Cardinality({ u \in distinct : before(u, t) })
    IN [ i \in 1..Min(Cardinality(distinct), n) |->
           LET t == CHOOSE u \in distinct : place(u) = i
           IN [text |-> t, count |-> Count(texts, t)] ]

\* str(n) for the counts of the model
Digits == <<"1", "2", "3", "4", "5", "6", "7", "8", "9">>

\* str() of a list of (text, count) tuples: "[('a', 2), ('b', 1)]"
RECURSIVE ReprTuples(_, _)
ReprTuples(pairs, i) ==
    IF i > Len(pairs) THEN <<>>
    ELSE (IF i > 1 THEN <<",">> ELSE <<>>)
         \o <<"(", "'", pairs[i].text, "'", ",", Digits[pairs[i].count], ")">>
         \o ReprTuples(pairs, i + 1)

Repr(pairs) == <<"[">> \o ReprTuples(pairs, 1) \o <<"]">>

\* json.loads of such a text: JSON has no parentheses and no single-quoted
\* strings, so the only text of this form it accepts is "[]"
JsonLoads(s) ==
    IF "(" \in Range(s) \/ "'" \in Range(s)
    THEN [ok |-> FALSE, list |-> <<>>]
    ELSE [ok |-> TRUE, list |-> <<>>]

\* run_batch_pipeline lines 130-143: top_queries is a str; it is parsed as
\* JSON, and when that fails the whole string becomes the one element
TopQs(top_queries) ==
    LET parsed == JsonLoads(top_queries)
    IN IF parsed.ok THEN parsed.list ELSE <<top_queries>>

EnrichStep(label) ==
    /\ op' = label
    /\ UNCHANGED <<mv_vars, ts_vars, store_vars, cl, nz, rd, vs, wr, vz, sc>>

\* score_and_rank_clusters builds the trend of the cluster:
\* "top_queries": str(query_counts.most_common(5))
BuildTrend ==
    /\ en.pc = "cluster"
    /\ LET most_common == MostCommon(en.texts, MostCommonLimit)
       IN en' = [en EXCEPT !.pc = "ranked", !.most_common = most_common,
                           !.top_queries = Repr(most_common)]
    /\ EnrichStep("build_trend")

\* the enrichment loop for the trend: craft_representative_query is
\* awaited with [str(q) for q in top_qs] when top_qs is not empty
CraftRepresentative ==
    /\ en.pc = "ranked"
    /\ LET top_qs == TopQs(en.top_queries)
       IN IF Len(top_qs) > 0
          THEN en' = [en EXCEPT !.pc = "crafted", !.payload = top_qs, !.calls = @ + 1]
          ELSE en' = [en EXCEPT !.pc = "skipped"]
    /\ EnrichStep("craft_representative")

EnrichInit ==
    /\ RestInit
    /\ wr = WriteIdle
    /\ vz = VectorizeIdle
    /\ sc = ScoreIdle
    /\ \E texts \in ClusterTexts : en = [EnrichIdle EXCEPT !.pc = "cluster", !.texts = texts]

EnrichSpecNext ==
    \/ BuildTrend
    \/ CraftRepresentative

EnrichSpec == EnrichInit /\ [][EnrichSpecNext]_vars

\* C28: the Representative Phrase Service is called once for the trend,
\* and the list of example texts it receives has one element per top
\* query: the (up to 5) most frequent normalized query texts of the
\* cluster, the most frequent first.
C28_PayloadIsTopQueryTexts ==
    en.pc \in {"crafted", "skipped"} =>
       /\ en.pc = "crafted"
       /\ en.calls = 1
       /\ en.payload = [ i \in DOMAIN en.most_common |-> <<en.most_common[i].text>> ]


\* ======================================================================
\* The rhythm of the two schedulers: invocations and intervals
\* ======================================================================
\* _run() of the materialized view scheduler sleeps inside its own loop.
\* The trending search scheduler has no loop of its own: APScheduler's
\* IntervalTrigger fires each time an interval has elapsed, the first time
\* one interval after start() (add_job gives no next_run_time), and a
\* firing while max_instances runs are in progress is dropped.

\* the steps in which an interval of the trigger has elapsed
TickLabels == {"ts_tick_submitted", "ts_tick_skipped"}

\* the loop of _run(): the first step of a task is an invocation, an
\* invocation that returns or raises an Exception is followed by the
\* sleep, and an invocation starts only from the start of the task or
\* from the sleep
MVInvokeThenSleep ==
    \A t \in Tasks :
       /\ (mv_pc[t] = "ready" /\ mv_pc'[t] # "ready") => mv_pc'[t] \in {"refresh", "cancelled"}
       /\ (mv_pc[t] = "refresh" /\ op' \in {"mv_refresh_ok", "mv_refresh_failed"})
             => mv_pc'[t] = "sleep"
       /\ (mv_pc[t] # "refresh" /\ mv_pc'[t] = "refresh") => mv_pc[t] \in {"ready", "sleep"}

\* C29 as stated: both schedulers invoke the job and then sleep for the
\* interval, so the first invocation comes before any interval has
\* elapsed, and no interval elapses without the next invocation, also
\* after a failed one.
C29_InvokeThenSleep ==
    [][ /\ MVInvokeThenSleep
        /\ (op' \in TickLabels) => (\E r \in Runs : ts_run[r].pc # "free")
        /\ op' # "ts_tick_skipped" ]_vars

\* C29, amended: the loop of the materialized view scheduler invokes the
\* job first and sleeps one interval between two invocations, also after
\* a failed one; the trending search job is invoked only when an interval
\* of its trigger has elapsed, the first time one interval after start(),
\* and an elapsed interval starts an invocation exactly when fewer than
\* max_instances runs are in progress, whether the earlier run failed or
\* not.
C29_InvokePerInterval ==
    [][ /\ MVInvokeThenSleep
        /\ (\E r \in Runs : ts_run[r].pc # "ready" /\ ts_run'[r].pc = "ready")
              => op' = "ts_tick_submitted"
        /\ (op' = "ts_tick_submitted")
              => /\ ts_instances < MaxInstances
                 /\ \E r \in Runs : ts_run[r].pc # "ready" /\ ts_run'[r].pc = "ready"
        /\ (op' = "ts_tick_skipped")
              => /\ ts_instances >= MaxInstances
                 /\ UNCHANGED ts_run ]_vars

\* the materialized view loop is in the sleep that follows an invocation,
\* and an interval of the trending search trigger has just elapsed while
\* a run was in progress
C29_Witness ==
    /\ op = "ts_tick_skipped"
    /\ \E t \in Tasks : mv_pc[t] = "sleep"
    /\ \E r \in Runs : ts_run[r].pc \notin RunOver

====
